---- MODULE Spec2Model ----
(***************************************************************************)
(* The query execution pipeline of src/graph.py: the LangGraph workflow    *)
(* route -> collect -> (retry -> collect)* -> analyze -> respond -> END,   *)
(* with the collector registry, the fallback chain and the LLM factory it  *)
(* depends on.  After the pipeline come the retry loop of the collectors,  *)
(* the storage tables, the scheduler loop, the front-ends that run the      *)
(* pipeline and log its result, and two pipeline runs in flight at once;    *)
(* each part has its own specification over the same variables.            *)
(*                                                                         *)
(* A Python str is modelled as a text: a sequence of segments, each a      *)
(* record [s, n, of] holding n characters of the piece named s, whose full *)
(* length is of.  Concatenation is \o, len() is TextLen, the slice t[:k]  *)
(* is Take(t, k), and the empty str is the empty sequence.                 *)
(***************************************************************************)
EXTENDS Naturals, Sequences, FiniteSets, TLC

VARIABLES
    request,      \* the state the front-end hands to workflow.ainvoke
    state,        \* the AgentState threaded through the nodes
    pc,           \* the node (or suspension point inside a node) to run next
    handles,      \* every collector / LLM handle the run has obtained
    steps,        \* how often each node has been entered
    attempts,     \* one record per collect attempt, in order
    routing,      \* how the route node decided
    llm_binding,  \* what the name get_llm_client is bound to in src.graph
    backoff,      \* one call of BaseCollector.collect or of a with_retry wrapper
    wa_subscribers, \* the rows of the wa_subscribers table, in insertion order
    query_log,    \* the rows of the query_log table, in insertion order
    utcnow,       \* the wall clock datetime.utcnow() reads
    frontend,     \* one request as a front-end (API, bot, WhatsApp) handles it
    scheduler,    \* scheduler_loop: its position and what it has fired
    runs,         \* two pipeline executions in flight at once
    last_op,      \* per phone number, the last subscription operation on it
    fire,         \* one call of send_daily_updates: its position and its sends
    breaker,      \* one CircuitBreaker and the calls made through it
    sessions,     \* the subscribe and unsubscribe calls in flight, one session each
    pending_run   \* AnalysisPipeline.process_pending and the collected items table

\* The variables of one pipeline execution.
pipeline == <<request, state, pc, handles, steps, attempts, routing, llm_binding>>

\* The variables outside the pipeline execution.
outside == <<backoff, wa_subscribers, query_log, utcnow, frontend, scheduler, runs,
             last_op, fire, breaker, sessions, pending_run>>

vars == <<pipeline, outside>>

\* ---------------------------------------------------------------- bounds

\* The most items a collector returns in the model.
MaxItems == 6
\* The length of a short piece of text (a query, a message, a title).
ShortLen == 12
\* The length of a long piece of text, beyond the response cap.
LongLen == 5000

\* ------------------------------------------------------------------ text

Seg(s, n) == [s |-> s, n |-> n, of |-> n]

Txt(s, n) == IF n = 0 THEN << >> ELSE << Seg(s, n) >>

Lit(s) == Txt(s, Len(s))

RECURSIVE TextLen(_)
TextLen(t) == IF t = << >> THEN 0 ELSE Head(t).n + TextLen(Tail(t))

RECURSIVE Take(_, _)
Take(t, k) ==
    IF t = << >> \/ k = 0 THEN << >>
    ELSE IF Head(t).n <= k
         THEN << Head(t) >> \o Take(Tail(t), k - Head(t).n)
         ELSE << [Head(t) EXCEPT !.n = k] >>

\* str.upper() of a source key.
Upper(s) ==
    CASE s = "news" -> "NEWS"
      [] s = "news_rapidapi" -> "NEWS_RAPIDAPI"
      [] s = "weather" -> "WEATHER"
      [] s = "crypto" -> "CRYPTO"
      [] s = "dexscreener" -> "DEXSCREENER"
      [] s = "reddit" -> "REDDIT"
      [] s = "github" -> "GITHUB"
      [] s = "arxiv" -> "ARXIV"
      [] s = "stocks" -> "STOCKS"
      [] s = "wikipedia" -> "WIKIPEDIA"
      [] s = "ddg" -> "DDG"
      [] s = "ddg_news" -> "DDG_NEWS"
      [] s = "serper" -> "SERPER"
      [] s = "tmz" -> "TMZ"
      [] s = "cryptonews" -> "CRYPTONEWS"
      [] s = "twitter" -> "TWITTER"
      [] s = "search" -> "SEARCH"
      [] OTHER -> s

\* -------------------------------------------------- registry and fallbacks

COLLECTOR_REGISTRY ==
    [ news          |-> "DirectNewsCollector",
      news_rapidapi |-> "NewsCollector",
      weather       |-> "WeatherCollector",
      crypto        |-> "CryptoCollector",
      dexscreener   |-> "DexScreenerCollector",
      reddit        |-> "RedditCollector",
      github        |-> "GitHubCollector",
      arxiv         |-> "ArxivCollector",
      stocks        |-> "StocksCollector",
      wikipedia     |-> "WikipediaCollector",
      ddg           |-> "DdgWebCollector",
      ddg_news      |-> "DdgNewsCollector",
      serper        |-> "SerperCollector",
      tmz           |-> "TmzCollector",
      cryptonews    |-> "CryptoPanicCollector" ]

AVAILABLE_SOURCES == DOMAIN COLLECTOR_REGISTRY

FALLBACK_CHAIN ==
    [ ddg        |-> << "ddg_news", "news", "reddit" >>,
      ddg_news   |-> << "news", "ddg", "reddit" >>,
      news       |-> << "ddg_news", "ddg", "reddit" >>,
      wikipedia  |-> << "ddg", "news" >>,
      arxiv      |-> << "ddg", "news", "github" >>,
      crypto     |-> << "cryptonews", "ddg_news", "news" >>,
      cryptonews |-> << "crypto", "ddg_news", "news" >>,
      stocks     |-> << "ddg", "news" >>,
      reddit     |-> << "ddg", "news" >>,
      github     |-> << "ddg", "news" >>,
      weather    |-> << "ddg" >>,
      serper     |-> << "ddg", "news" >>,
      tmz        |-> << "ddg_news", "news" >> ]

\* A fallback policy whose generic default names a source of no collector.
Fallbacks_default_search(original_source) ==
    IF original_source \in DOMAIN FALLBACK_CHAIN
    THEN FALLBACK_CHAIN[original_source]
    ELSE << "search", "news", "reddit" >>

\* FALLBACK_CHAIN.get(original_source, ["news", "reddit", "ddg_news"])
Fallbacks(original_source) ==
    IF original_source \in DOMAIN FALLBACK_CHAIN
    THEN FALLBACK_CHAIN[original_source]
    ELSE << "news", "reddit", "ddg_news" >>

\* A source name that is no registry key.
UnknownSource == "twitter"

\* settings.ollama_analysis_model
DefaultAnalysisModel == "llama3:latest"

\* ------------------------------------------------------------ the request

ShortMessage == Txt("user message", ShortLen)
LongMessage == Txt("long user message", LongLen)
ShortQuery == Txt("query", ShortLen)
LongQuery == Txt("long query", LongLen)

Messages == { ShortMessage, LongMessage }
Queries == { << >>, ShortQuery, LongQuery }
RequestSources == AVAILABLE_SOURCES \cup { "", UnknownSource }
ModelNames == { "", "qwen2.5:0.5b" }

\* The state dict every front-end builds before workflow.ainvoke(state).
InitialState(user_message, source, query, analysis_model) ==
    [ user_message   |-> user_message,
      source         |-> source,
      query          |-> query,
      items          |-> << >>,
      analysis       |-> << >>,
      response       |-> << >>,
      error          |-> << >>,
      model          |-> "",
      analysis_model |-> analysis_model,
      tried_sources  |-> << >>,
      retry_count    |-> 0 ]

\* ---------------------------------------------------------------- handles

Handle(kind, node) == [ kind |-> kind, node |-> node, open |-> TRUE, closes |-> 0 ]

\* The handle obtained last is the one the running node holds.
Open(kind, node) == Append(handles, Handle(kind, node))

Close(hs) ==
    [ hs EXCEPT ![Len(hs)] = [ @ EXCEPT !.open = FALSE, !.closes = @ + 1 ] ]

\* ------------------------------------------------------------ LLM factory

\* get_llm_client as graph.py calls it, with one positional argument.  The
\* function of src/llm.py declares no parameter, so binding the argument
\* fails before its body runs; a patched name (the mock of the unit tests) accepts
\* the argument and returns the client.
LlmBindings == { "src.llm.get_llm_client", "patched" }

get_llm_client(binding) ==
    IF binding = "src.llm.get_llm_client" THEN "TypeError" ELSE "client"

\* ------------------------------------------------------------------ route

Tok(tok, src, qry) == [ tok |-> tok, src |-> src, qry |-> qry ]
\* The code fence, three backquotes.
Fence == Tok("fence", "", "")
JsonTag == Tok("json", "", "")
Ws == Tok(" ", "", "")
Prose == Tok("prose", "", "")
Arr == Tok("array", "", "")
Obj(src, qry) == Tok("object", src, qry)
Absent == "<absent>"
Null == "<null>"

\* str.strip(): drop the whitespace at both ends.
RECURSIVE LStrip(_)
LStrip(t) == IF t # << >> /\ Head(t) = Ws THEN LStrip(Tail(t)) ELSE t

RECURSIVE RStrip(_)
RStrip(t) ==
    IF t # << >> /\ t[Len(t)] = Ws THEN RStrip(SubSeq(t, 1, Len(t) - 1)) ELSE t

Strip(t) == RStrip(LStrip(t))

\* The index of the first token equal to x at or after position i, 0 if none.
RECURSIVE IndexFrom(_, _, _)
IndexFrom(t, x, i) ==
    IF i > Len(t) THEN 0 ELSE IF t[i] = x THEN i ELSE IndexFrom(t, x, i + 1)

\* text.split(fence)[1]: what lies between the first fence and the next one
\* (or the end of the text).
SplitFenceSecond(t) ==
    LET a == IndexFrom(t, Fence, 1)
        b == IndexFrom(t, Fence, a + 1)
    IN  SubSeq(t, a + 1, IF b = 0 THEN Len(t) ELSE b - 1)

\* str.replace: drop the first "json".
ReplaceJsonOnce(t) ==
    LET i == IndexFrom(t, JsonTag, 1)
    IN  IF i = 0 THEN t ELSE SubSeq(t, 1, i - 1) \o SubSeq(t, i + 1, Len(t))

\* json.loads: one JSON value, whitespace around it allowed; anything else
\* raises.
json_loads(t) ==
    LET u == Strip(t)
    IN  IF Len(u) = 1 /\ u[1].tok \in { "object", "array" }
        THEN [ ok |-> TRUE, value |-> u[1] ]
        ELSE [ ok |-> FALSE, value |-> Arr ]

\* The parse without the check of the source against the registry.
route_parse_uncoerced(answer, user_message) ==
    LET text0 == Strip(answer)
        text == IF IndexFrom(text0, Fence, 1) # 0
                THEN Strip(ReplaceJsonOnce(SplitFenceSecond(text0)))
                ELSE text0
        parsed == json_loads(text)
    IN  IF ~parsed.ok \/ parsed.value.tok # "object"
        THEN [ ok |-> FALSE, source |-> "", query |-> << >> ]
        ELSE [ ok |-> TRUE,
               source |-> IF parsed.value.src = Absent THEN "news"
                          ELSE parsed.value.src,
               query |-> IF parsed.value.qry = Absent THEN user_message
                         ELSE Lit(parsed.value.qry) ]

\* Lines 73-81 of route_node: from the text of the answer of the LLM to the
\* (source, query) pair, or the exception the except clause catches.
route_parse(answer, user_message) ==
    LET text0 == Strip(answer)
        text == IF IndexFrom(text0, Fence, 1) # 0
                THEN Strip(ReplaceJsonOnce(SplitFenceSecond(text0)))
                ELSE text0
        parsed == json_loads(text)
    IN  IF ~parsed.ok \/ parsed.value.tok # "object"
        THEN [ ok |-> FALSE, source |-> "", query |-> << >> ]
        ELSE LET source == IF parsed.value.src = Absent THEN "news"
                           ELSE parsed.value.src
                 query == IF parsed.value.qry = Absent THEN user_message
                          ELSE Lit(parsed.value.qry)
             IN  [ ok |-> TRUE,
                   source |-> IF source \notin AVAILABLE_SOURCES THEN "news"
                              ELSE source,
                   query |-> query ]

\* What llm.complete / llm.get_text give the route node: an exception, or
\* the text of the answer.
RouteAnswers ==
    { << Obj("wikipedia", "Python programming") >>,
      << Ws, Obj("weather", "London"), Ws >>,
      << Fence, JsonTag, Ws, Obj("crypto", "bitcoin"), Ws, Fence >>,
      << Prose, Fence, Obj(UnknownSource, "birds"), Fence, Prose >>,
      << Prose, Obj("weather", "London") >>,
      << Obj(UnknownSource, "birds") >>,
      << Obj(Absent, "birds") >>,
      << Obj(Null, "birds") >>,
      << Obj("weather", Absent) >>,
      << Arr >>,
      << Fence >>,
      << >> }

RouteLlmOutcomes ==
    { [ raised |-> TRUE, answer |-> << >> ] }
    \cup { [ raised |-> FALSE, answer |-> a ] : a \in RouteAnswers }

NoRouting ==
    [ llm |-> FALSE, how |-> "none", raised |-> FALSE, answer |-> << >>,
      source |-> "" ]

\* route_node, line 60: state.get("source") and state.get("query")
is_preset(st) == st.source # "" /\ st.query # << >>

\* The passthrough taking the raw message as the query.
RoutePassthroughRewritesQuery ==
    /\ pc = "route"
    /\ is_preset(state)
    /\ state' = [ state EXCEPT !.query = state.user_message,
                               !.tried_sources = << >>, !.retry_count = 0 ]
    /\ pc' = "collect"
    /\ steps' = [ steps EXCEPT !.route = @ + 1 ]
    /\ routing' = [ NoRouting EXCEPT !.how = "passthrough", !.source = state.source ]
    /\ UNCHANGED << request, handles, attempts, llm_binding, outside >>

\* route_node, line 60-61: source and query are both set.
RoutePassthrough ==
    /\ pc = "route"
    /\ is_preset(state)
    /\ state' = [ state EXCEPT !.tried_sources = << >>, !.retry_count = 0 ]
    /\ pc' = "collect"
    /\ steps' = [ steps EXCEPT !.route = @ + 1 ]
    /\ routing' = [ NoRouting EXCEPT !.how = "passthrough", !.source = state.source ]
    /\ UNCHANGED << request, handles, attempts, llm_binding, outside >>

\* route_node, line 63: obtain the LLM client; an exception here is raised
\* before the try block and leaves the node.
RouteGetLlm ==
    /\ pc = "route"
    /\ ~is_preset(state)
    /\ steps' = [ steps EXCEPT !.route = @ + 1 ]
    /\ IF get_llm_client(llm_binding) = "client"
       THEN /\ handles' = Open("llm", "route")
            /\ pc' = "route_llm"
            /\ routing' = routing
       ELSE /\ handles' = handles
            /\ pc' = "raised"
            /\ routing' = [ NoRouting EXCEPT !.how = "raised" ]
    /\ UNCHANGED << request, state, attempts, llm_binding, outside >>

\* route_node, lines 64-86: the completion, the parse, the except clause
\* and the finally clause that closes the client.
RouteComplete ==
    /\ pc = "route_llm"
    /\ \E o \in RouteLlmOutcomes :
         LET p == IF o.raised THEN [ ok |-> FALSE, source |-> "", query |-> << >> ]
                  ELSE route_parse(o.answer, state.user_message)
         IN  /\ state' = IF p.ok
                         THEN [ state EXCEPT !.source = p.source,
                                             !.query = p.query,
                                             !.tried_sources = << >>,
                                             !.retry_count = 0 ]
                         ELSE [ state EXCEPT !.source = "news",
                                             !.query = state.user_message,
                                             !.tried_sources = << >>,
                                             !.retry_count = 0 ]
             /\ routing' = [ llm |-> TRUE,
                             how |-> IF p.ok THEN "parsed" ELSE "fallback",
                             raised |-> o.raised,
                             answer |-> o.answer,
                             source |-> IF p.ok THEN p.source ELSE "news" ]
    /\ handles' = Close(handles)
    /\ pc' = "collect"
    /\ UNCHANGED << request, steps, attempts, llm_binding, outside >>

\* ---------------------------------------------------------------- collect

\* The items a collector returns: CollectedItem records (base_collector.py).
\* The first title is longer than the 40 characters a link label keeps, the
\* second item has no url.
RawItem(i, source) ==
    [ source       |-> source,
      title        |-> IF i = 1 THEN Txt("title 1", 50) ELSE Txt("title", ShortLen),
      content      |-> IF i = 1 THEN Txt("content 1", LongLen) ELSE Txt("content", ShortLen),
      url          |-> IF i = 2 THEN << >> ELSE Txt("url", ShortLen),
      published_at |-> << >>,
      metadata     |-> "{}" ]

RawItems(k, source) == [ i \in 1..k |-> RawItem(i, source) ]

ItemCounts == { 0, 1, MaxItems }

ExceptionMessages == { << >>, Txt("timeout", ShortLen), Txt("long traceback", LongLen) }

\* What get_collector(source).collect(query, limit=5) gives the collect
\* node: an exception, or a list of items (possibly empty).
CollectOutcomes(source) ==
    { [ raised |-> TRUE, message |-> m, items |-> << >> ] : m \in ExceptionMessages }
    \cup { [ raised |-> FALSE, message |-> << >>, items |-> RawItems(k, source) ] :
             k \in ItemCounts }

\* get_collector: the registered class, or a ValueError.
get_collector(source) ==
    IF source \in DOMAIN COLLECTOR_REGISTRY
    THEN [ ok |-> TRUE, class |-> COLLECTOR_REGISTRY[source], message |-> << >> ]
    ELSE [ ok |-> FALSE, class |-> "",
           message |-> Lit("Unknown collector: ") \o Lit(source)
                       \o Lit(". Available: ") \o Txt("registry keys", 150) ]

\* The transport form of an item, lines 103-106.
ToDict(item) ==
    [ title |-> item.title, content |-> item.content, url |-> item.url,
      source |-> item.source ]

NoResultsError(source) == Lit("No results from ") \o Lit(source)

FailedError(source, message) ==
    Lit("Failed: ") \o Lit(source) \o Lit(" (") \o message \o Lit(")")

\* collect_node recording the source only when the collector returned.
collect_result_untracked(st, o) ==
    LET tried == Append(st.tried_sources, st.source)
        items == [ i \in DOMAIN o.items |-> ToDict(o.items[i]) ]
    IN  IF o.raised
        THEN [ st EXCEPT !.items = << >>,
                         !.error = FailedError(st.source, o.message) ]
        ELSE IF items # << >>
        THEN [ st EXCEPT !.items = items, !.error = << >>, !.tried_sources = tried ]
        ELSE [ st EXCEPT !.items = << >>,
                         !.error = NoResultsError(st.source),
                         !.tried_sources = tried ]

\* collect_node setting no error when the collector returned nothing.
collect_result_no_error(st, o) ==
    LET tried == Append(st.tried_sources, st.source)
        items == [ i \in DOMAIN o.items |-> ToDict(o.items[i]) ]
    IN  IF o.raised
        THEN [ st EXCEPT !.items = << >>,
                         !.error = FailedError(st.source, o.message),
                         !.tried_sources = tried ]
        ELSE [ st EXCEPT !.items = items, !.error = << >>, !.tried_sources = tried ]

\* collect_node leaving the error as it was when the collector returned
\* items.
collect_result_stale_error(st, o) ==
    LET tried == Append(st.tried_sources, st.source)
        items == [ i \in DOMAIN o.items |-> ToDict(o.items[i]) ]
    IN  IF o.raised
        THEN [ st EXCEPT !.items = << >>,
                         !.error = FailedError(st.source, o.message),
                         !.tried_sources = tried ]
        ELSE IF items # << >>
        THEN [ st EXCEPT !.items = items, !.tried_sources = tried ]
        ELSE [ st EXCEPT !.items = << >>,
                         !.error = NoResultsError(st.source),
                         !.tried_sources = tried ]

\* The state collect_node returns, given what the collector did.
collect_result(st, o) ==
    LET tried == Append(st.tried_sources, st.source)
        items == [ i \in DOMAIN o.items |-> ToDict(o.items[i]) ]
    IN  IF o.raised
        THEN [ st EXCEPT !.items = << >>,
                         !.error = FailedError(st.source, o.message),
                         !.tried_sources = tried ]
        ELSE IF items # << >>
        THEN [ st EXCEPT !.items = items, !.error = << >>, !.tried_sources = tried ]
        ELSE [ st EXCEPT !.items = << >>,
                         !.error = NoResultsError(st.source),
                         !.tried_sources = tried ]

\* max_retries of _should_retry.
max_retries == 2

\* The exhaustion sentinel of retry_node.
RetryExhausted == 99

\* _should_retry with the cap compared by > instead of >=.
should_retry_off_by_one(st) ==
    IF st.items # << >> THEN "analyze"
    ELSE IF st.retry_count > 2 THEN "analyze"
    ELSE "retry"

\* _should_retry: the conditional edge out of collect.
should_retry(st) ==
    IF st.items # << >> THEN "analyze"
    ELSE IF st.retry_count >= max_retries THEN "analyze"
    ELSE "retry"

Attempt(source, outcome) == [ source |-> source, outcome |-> outcome ]

\* collect_node, lines 91-97: get_collector inside the try block; an unknown
\* source raises ValueError, which the except clause turns into an error.
CollectGet ==
    /\ pc = "collect"
    /\ steps' = [ steps EXCEPT !.collect = @ + 1 ]
    /\ LET c == get_collector(state.source)
       IN  IF c.ok
           THEN /\ handles' = Open("collector", "collect")
                /\ pc' = "collect_fetch"
                /\ UNCHANGED << state, attempts >>
           ELSE LET st == collect_result(state,
                             [ raised |-> TRUE, message |-> c.message, items |-> << >> ])
                IN  /\ state' = st
                    /\ attempts' = Append(attempts, Attempt(state.source, "unknown"))
                    /\ pc' = should_retry(st)
                    /\ handles' = handles
    /\ UNCHANGED << request, routing, llm_binding, outside >>

\* The fetch with the collector closed on the normal path only.
CollectFetchNoFinally ==
    /\ pc = "collect_fetch"
    /\ \E o \in CollectOutcomes(state.source) :
         LET st == collect_result(state, o)
         IN  /\ state' = st
             /\ attempts' = Append(attempts, Attempt(state.source,
                               IF o.raised THEN "raised"
                               ELSE IF o.items = << >> THEN "empty" ELSE "items"))
             /\ pc' = should_retry(st)
             /\ handles' = IF o.raised THEN handles ELSE Close(handles)
    /\ UNCHANGED << request, steps, routing, llm_binding, outside >>

\* The fetch of a collect step that leaves its collector to the next step.
CollectFetchKeepsCollector ==
    /\ pc = "collect_fetch"
    /\ \E o \in CollectOutcomes(state.source) :
         LET st == collect_result(state, o)
         IN  /\ state' = st
             /\ attempts' = Append(attempts, Attempt(state.source,
                               IF o.raised THEN "raised"
                               ELSE IF o.items = << >> THEN "empty" ELSE "items"))
             /\ pc' = should_retry(st)
    /\ UNCHANGED << request, handles, steps, routing, llm_binding, outside >>

\* collect_node, lines 98-114: the fetch, the finally clause that closes the
\* collector, the conversion and the three outcomes; then the edge.
CollectFetch ==
    /\ pc = "collect_fetch"
    /\ \E o \in CollectOutcomes(state.source) :
         LET st == collect_result(state, o)
         IN  /\ state' = st
             /\ attempts' = Append(attempts, Attempt(state.source,
                               IF o.raised THEN "raised"
                               ELSE IF o.items = << >> THEN "empty" ELSE "items"))
             /\ pc' = should_retry(st)
    /\ handles' = Close(handles)
    /\ UNCHANGED << request, steps, routing, llm_binding, outside >>

\* ------------------------------------------------------------------ retry

InSeq(x, seq) == \E i \in DOMAIN seq : seq[i] = x

\* The first fallback not yet tried, "" (None) when there is none.
RECURSIVE FirstUntried(_, _)
FirstUntried(fallbacks, tried) ==
    IF fallbacks = << >> THEN ""
    ELSE IF ~InSeq(Head(fallbacks), tried) THEN Head(fallbacks)
    ELSE FirstUntried(Tail(fallbacks), tried)

\* retry_node taking the fallbacks of the current source.
retry_result_from_current(st) ==
    LET tried == st.tried_sources
        next_source == FirstUntried(Fallbacks(st.source), tried)
    IN  IF next_source = ""
        THEN [ st EXCEPT !.retry_count = RetryExhausted ]
        ELSE [ st EXCEPT !.source = next_source,
                         !.error = << >>,
                         !.retry_count = st.retry_count + 1 ]

\* The state retry_node returns.
retry_result(st) ==
    LET tried == st.tried_sources
        original_source == IF tried # << >> THEN tried[1] ELSE st.source
        next_source == FirstUntried(Fallbacks(original_source), tried)
    IN  IF next_source = ""
        THEN [ st EXCEPT !.retry_count = RetryExhausted ]
        ELSE [ st EXCEPT !.source = next_source,
                         !.error = << >>,
                         !.retry_count = st.retry_count + 1 ]

\* retry_node, followed by the unconditional edge retry -> collect.
Retry ==
    /\ pc = "retry"
    /\ state' = retry_result(state)
    /\ pc' = "collect"
    /\ steps' = [ steps EXCEPT !.retry = @ + 1 ]
    /\ UNCHANGED << request, handles, attempts, routing, llm_binding, outside >>

\* ---------------------------------------------------------------- analyze

NL == Txt("<newline>", 1)

\* The deterministic assembly of the except clause, lines 180-185.
RECURSIVE FallbackLines(_)
FallbackLines(items) ==
    IF items = << >> THEN << >>
    ELSE LET item == Head(items)
         IN  Txt("<bullet> *", 3) \o item.title \o Lit("*") \o NL
             \o (IF item.url # << >>
                 THEN Lit("  [") \o Take(item.title, 40) \o Lit("](")
                      \o item.url \o Lit(")") \o NL
                 ELSE << >>)
             \o FallbackLines(Tail(items))

FirstFive(items) == SubSeq(items, 1, IF Len(items) < 5 THEN Len(items) ELSE 5)

\* The assembly of the except clause over all items, not the first five.
analyze_fallback_all_items(st) ==
    Lit("*") \o Lit(Upper(st.source)) \o Lit(" results for '") \o st.query
    \o Lit("'*") \o NL \o NL \o FallbackLines(st.items)

analyze_fallback(st) ==
    Lit("*") \o Lit(Upper(st.source)) \o Lit(" results for '") \o st.query
    \o Lit("'*") \o NL \o NL \o FallbackLines(FirstFive(st.items))

\* What llm.complete / llm.get_text give the analyze node: an exception, or
\* the text of the briefing, of any length.
AnalyzeLlmOutcomes ==
    { [ raised |-> TRUE, text |-> << >> ] }
    \cup { [ raised |-> FALSE, text |-> t ] :
             t \in { << >>, Txt("briefing", ShortLen), Txt("long briefing", LongLen) } }

\* An analyze step that answers every run without data with the fixed text.
AnalyzeSkipFixedText ==
    /\ pc = "analyze"
    /\ state.error # << >> \/ state.items = << >>
    /\ state' = [ state EXCEPT !.analysis = Lit("No data to analyze.") ]
    /\ pc' = "respond"
    /\ steps' = [ steps EXCEPT !.analyze = @ + 1 ]
    /\ UNCHANGED << request, handles, attempts, routing, llm_binding, outside >>

\* analyze_node, lines 141-142: nothing to synthesize; state.get("error", ...)
\* finds the key, which every front-end sets.
AnalyzeSkip ==
    /\ pc = "analyze"
    /\ state.error # << >> \/ state.items = << >>
    /\ state' = [ state EXCEPT !.analysis = state.error ]
    /\ pc' = "respond"
    /\ steps' = [ steps EXCEPT !.analyze = @ + 1 ]
    /\ UNCHANGED << request, handles, attempts, routing, llm_binding, outside >>

\* analyze_node, line 157: obtain the LLM client, before the try block.
AnalyzeGetLlm ==
    /\ pc = "analyze"
    /\ ~(state.error # << >> \/ state.items = << >>)
    /\ steps' = [ steps EXCEPT !.analyze = @ + 1 ]
    /\ IF get_llm_client(llm_binding) = "client"
       THEN /\ handles' = Open("llm", "analyze")
            /\ pc' = "analyze_llm"
       ELSE /\ handles' = handles
            /\ pc' = "raised"
    /\ UNCHANGED << request, state, attempts, routing, llm_binding, outside >>

\* analyze_node, lines 158-187: the completion, the except clause with its
\* deterministic assembly, and the finally clause that closes the client.
AnalyzeComplete ==
    /\ pc = "analyze_llm"
    /\ \E o \in AnalyzeLlmOutcomes :
         state' = [ state EXCEPT !.analysis =
                      IF o.raised THEN analyze_fallback(state) ELSE o.text ]
    /\ handles' = Close(handles)
    /\ pc' = "respond"
    /\ UNCHANGED << request, steps, attempts, routing, llm_binding, outside >>

\* ---------------------------------------------------------------- respond

\* The cap of a Telegram message.
ResponseCap == 4096

\* Where respond_node cuts a message that is over the cap.
TruncateAt == 4090

RECURSIVE Join(_)
Join(names) ==
    IF names = << >> THEN << >>
    ELSE IF Len(names) = 1 THEN Lit(names[1])
    ELSE Lit(names[1]) \o Lit(", ") \o Join(Tail(names))

\* A note that names every tried source, the last one too, as tried first.
retry_note_all_tried(tried) ==
    IF Len(tried) > 1
    THEN NL \o Lit("_Tried ") \o Join(tried)
         \o Lit(" first, used ") \o Lit(tried[Len(tried)]) \o Lit("._") \o NL
    ELSE << >>

retry_note(tried) ==
    IF Len(tried) > 1
    THEN NL \o Lit("_Tried ") \o Join(SubSeq(tried, 1, Len(tried) - 1))
         \o Lit(" first, used ") \o Lit(tried[Len(tried)]) \o Lit("._") \o NL
    ELSE << >>

model_tag(st) ==
    LET a_model == IF st.analysis_model # "" THEN st.analysis_model
                   ELSE DefaultAnalysisModel
    IN  Txt(" <backquote>[", 3) \o Lit(a_model) \o Txt("]<backquote>", 2)

header(st) ==
    Txt("<magnifier> *", 3) \o Lit(Upper(st.source)) \o Txt("* <dash> ", 4)
    \o st.query \o model_tag(st) \o NL \o retry_note(st.tried_sources) \o NL

\* The cut made at the cap itself, the ellipsis added after it.
truncate_at_cap(full) ==
    IF TextLen(full) > 4096
    THEN Take(full, 4096) \o Txt("<newline>", 1) \o Lit("...")
    ELSE full

truncate(full) ==
    IF TextLen(full) > ResponseCap
    THEN Take(full, TruncateAt) \o NL \o Lit("...")
    ELSE full

\* A respond step that also records the model of the tag in the state.
respond_result_sets_model(st) ==
    [ st EXCEPT !.response = truncate(header(st) \o st.analysis),
                !.model = IF st.analysis_model # "" THEN st.analysis_model
                          ELSE DefaultAnalysisModel ]

respond_result(st) ==
    [ st EXCEPT !.response = truncate(header(st) \o st.analysis) ]

\* respond_node, followed by the edge respond -> END.
Respond ==
    /\ pc = "respond"
    /\ state' = respond_result(state)
    /\ pc' = "END"
    /\ steps' = [ steps EXCEPT !.respond = @ + 1 ]
    /\ UNCHANGED << request, handles, attempts, routing, llm_binding, outside >>

\* ---------------------------------------------------------- specification

\* What the variables outside the pipeline hold while nothing uses them.
NoCall == [ phase |-> "idle" ]

NoRequest == [ phase |-> "idle" ]

NoScheduler == [ phase |-> "idle" ]

NoFire == [ phase |-> "idle" ]

NoBreaker == [ phase |-> "idle" ]

NoPendingRun == [ phase |-> "idle" ]

BackoffIdle == backoff = NoCall

StorageIdle ==
    wa_subscribers = << >> /\ query_log = << >> /\ utcnow = 0 /\ last_op = << >>

FrontEndIdle == frontend = NoRequest

SchedulerIdle == scheduler = NoScheduler

RunsIdle == runs = << >>

FireIdle == fire = NoFire

BreakerIdle == breaker = NoBreaker

SessionsIdle == sessions = << >>

PendingRunIdle == pending_run = NoPendingRun

PipelineIdle ==
    /\ request = [ user_message |-> << >>, source |-> "", query |-> << >>,
                   analysis_model |-> "" ]
    /\ state = InitialState(<< >>, "", << >>, "")
    /\ pc = "idle"
    /\ handles = << >>
    /\ steps = [ route |-> 0, collect |-> 0, retry |-> 0, analyze |-> 0,
                 respond |-> 0 ]
    /\ attempts = << >>
    /\ routing = NoRouting
    /\ llm_binding = "src.llm.get_llm_client"

OutsideIdle ==
    /\ BackoffIdle /\ StorageIdle /\ FrontEndIdle /\ SchedulerIdle /\ RunsIdle
    /\ FireIdle /\ BreakerIdle /\ SessionsIdle /\ PendingRunIdle

NoSteps == [ route |-> 0, collect |-> 0, retry |-> 0, analyze |-> 0, respond |-> 0 ]

Init ==
    /\ request \in [ user_message : Messages, source : RequestSources,
                     query : Queries, analysis_model : ModelNames ]
    /\ state = InitialState(request.user_message, request.source, request.query,
                            request.analysis_model)
    /\ pc = "route"
    /\ handles = << >>
    /\ steps = NoSteps
    /\ attempts = << >>
    /\ routing = NoRouting
    /\ llm_binding \in LlmBindings
    /\ OutsideIdle

Next ==
    \/ RoutePassthrough
    \/ RouteGetLlm
    \/ RouteComplete
    \/ CollectGet
    \/ CollectFetch
    \/ Retry
    \/ AnalyzeSkip
    \/ AnalyzeGetLlm
    \/ AnalyzeComplete
    \/ Respond

Spec == Init /\ [][Next]_vars

\* The run has stopped: at END, or with an exception raised out of a node.
Stopped == pc \in { "END", "raised" }

TypeOK ==
    /\ pc \in { "route", "route_llm", "collect", "collect_fetch", "retry",
                "analyze", "analyze_llm", "respond", "END", "raised" }
    /\ state.retry_count \in Nat
    /\ llm_binding \in LlmBindings

\* ================================================================= claims

TriedSet == { state.tried_sources[i] : i \in DOMAIN state.tried_sources }

AttemptSources == [ i \in DOMAIN attempts |-> attempts[i].source ]

Missed(i) == attempts[i].outcome # "items"

AllMissed == attempts # << >> /\ \A i \in DOMAIN attempts : Missed(i)

\* The route step is over and no collect step has begun.
AfterRoute == pc = "collect" /\ steps.collect = 0

\* C1: every run reaches END, after exactly one route step, at most three
\* collect attempts, one analyze step and one respond step.
C1_RunReachesEnd ==
    Stopped =>
        /\ pc = "END"
        /\ steps.route = 1
        /\ steps.collect <= max_retries + 1
        /\ steps.analyze = 1
        /\ steps.respond = 1

\* What does hold of the step counts: a run that reaches END made one route,
\* at most three collect, at most two retry, one analyze and one respond
\* step, and a run that has not stopped can always take its next step.
StepsBoundedAtEnd ==
    /\ pc = "END"
         => /\ steps.route = 1
            /\ steps.collect \in 1..(max_retries + 1)
            /\ steps.retry <= max_retries
            /\ steps.analyze = 1
            /\ steps.respond = 1
    /\ Stopped \/ ENABLED Next

\* C2: tried_sources holds exactly one entry per collect attempt, in attempt
\* order, and its first entry is the source the route step chose.
C2_TriedMatchesAttempts ==
    /\ state.tried_sources = AttemptSources
    /\ Len(state.tried_sources)
         = steps.collect - (IF pc = "collect_fetch" THEN 1 ELSE 0)
    /\ AfterRoute => state.tried_sources = << >> /\ state.source = routing.source
    /\ state.tried_sources # << >> => state.tried_sources[1] = routing.source

\* C2 witness: a run of three attempts over three sources has ended.
C2_Witness ==
    /\ pc = "END"
    /\ state.tried_sources = << "crypto", "cryptonews", "ddg_news" >>
    /\ Len(attempts) = 3

\* C3 as claimed: at termination retry_count <= max_retries + 1 = 3 and at
\* most three distinct sources were attempted.
C3_RetryCountAtMostThree ==
    Stopped =>
        /\ state.retry_count <= max_retries + 1
        /\ Cardinality(TriedSet) <= max_retries + 1

\* C3 as amended: at termination retry_count <= max_retries + 1 = 3 or it
\* is the exhaustion sentinel 99, and at most three distinct sources were
\* attempted.
C3_RetryCountOrSentinel ==
    Stopped =>
        /\ state.retry_count <= max_retries + 1 \/ state.retry_count = RetryExhausted
        /\ Cardinality(TriedSet) <= max_retries + 1

\* C3 witness: a run over three distinct sources ended at the cap, and one
\* ended with the sentinel.
C3_Witness ==
    /\ pc = "END"
    /\ \/ state.retry_count = max_retries /\ Cardinality(TriedSet) = 3
       \/ state.retry_count = RetryExhausted

\* C4: when the first attempt misses and the first fallback of the original
\* source returns items, the run ends with tried_sources = [original, that
\* fallback], retry_count = 1, no error, items and a non-empty analysis.
C4_FirstFallbackSucceeds ==
    ( /\ Stopped
      /\ Len(attempts) >= 2
      /\ Missed(1)
      /\ attempts[2].source = Fallbacks(attempts[1].source)[1]
      /\ attempts[2].outcome = "items" )
    => /\ pc = "END"
       /\ state.tried_sources = << attempts[1].source, attempts[2].source >>
       /\ state.retry_count = 1
       /\ state.error = << >>
       /\ state.items # << >>
       /\ state.analysis # << >>

C6_ResponseWithinCap == TextLen(state.response) <= ResponseCap

\* C6 witness: a response was produced from a header and an analysis that
\* together exceed the cap.
C6_Witness ==
    /\ pc = "END"
    /\ TextLen(header(state) \o state.analysis) > ResponseCap
    /\ TextLen(state.analysis) > ResponseCap

\* The caller passed a source that exists and a query.
CallerPreset == request.source \in AVAILABLE_SOURCES /\ request.query # << >>

\* C7: when the caller passes a source that exists and a query, the route
\* step obtains no LLM client, makes no LLM call and changes nothing but
\* tried_sources = [] and retry_count = 0.
C7_PresetRouteIsNoOp ==
    [][(pc = "route" /\ CallerPreset)
         => /\ state' = [ state EXCEPT !.tried_sources = << >>, !.retry_count = 0 ]
            /\ state'.source = request.source
            /\ state'.query = request.query
            /\ handles' = handles
            /\ ~routing'.llm
            /\ pc' = "collect"]_vars

\* C7 witness: the route step has passed a caller-chosen source through.
C7_Witness ==
    /\ AfterRoute
    /\ CallerPreset
    /\ routing.how = "passthrough"
    /\ state.source = "weather"

\* The answers whose stripped (and, when fenced, unfenced) text is one JSON
\* object.
ParseableAnswers ==
    { << Obj("wikipedia", "Python programming") >>,
      << Ws, Obj("weather", "London"), Ws >>,
      << Fence, JsonTag, Ws, Obj("crypto", "bitcoin"), Ws, Fence >>,
      << Prose, Fence, Obj(UnknownSource, "birds"), Fence, Prose >>,
      << Obj(UnknownSource, "birds") >>,
      << Obj(Absent, "birds") >>,
      << Obj(Null, "birds") >>,
      << Obj("weather", Absent) >> }

\* The source named by the JSON object of a parseable answer.
AnswerSource(answer) ==
    LET objs == { i \in DOMAIN answer : answer[i].tok = "object" }
    IN  answer[CHOOSE i \in objs : TRUE].src

C9_UnknownSourceRaised ==
    (attempts # << >> /\ attempts[1].source \notin AVAILABLE_SOURCES)
        => pc = "raised" /\ state.source = attempts[1].source

\* C10: every collector and LLM handle is closed exactly once by the step
\* that obtained it; only the running step holds an open handle, and none is
\* open when the run has stopped.
C10_HandlesClosedOnce ==
    /\ \A i \in DOMAIN handles :
          /\ handles[i].closes = (IF handles[i].open THEN 0 ELSE 1)
          /\ handles[i].open
               => /\ i = Len(handles)
                  /\ pc = (CASE handles[i].node = "route" -> "route_llm"
                             [] handles[i].node = "collect" -> "collect_fetch"
                             [] OTHER -> "analyze_llm")
    /\ Cardinality({ i \in DOMAIN handles : handles[i].kind = "collector" })
         = Cardinality({ i \in DOMAIN attempts : attempts[i].outcome # "unknown" })
             + (IF pc = "collect_fetch" THEN 1 ELSE 0)
    /\ Stopped => \A i \in DOMAIN handles : ~handles[i].open

\* C10 witness: a run that held a routing client, a collector that raised, a
\* collector that returned nothing, one that returned items and an analysis
\* client has ended.
C10_Witness ==
    /\ pc = "END"
    /\ Len(handles) = 5
    /\ handles[1].kind = "llm" /\ handles[5].kind = "llm"
    /\ attempts[1].outcome = "raised"
    /\ attempts[2].outcome = "empty"
    /\ attempts[3].outcome = "items"

\* C14: the fallback policy has an entry for every registered source, so
\* the retry step uses the generic default only for an original source that
\* is not registered.
C14_EveryRegisteredSourceHasFallbacks ==
    (steps.retry > 0 /\ state.tried_sources[1] \in AVAILABLE_SOURCES)
        => state.tried_sources[1] \in DOMAIN FALLBACK_CHAIN

\* ============================================== retry with backoff
\* BaseCollector.collect (collectors/base_collector.py) and the wrapper of
\* with_retry (tools/retry.py) are the same loop:
\*     for attempt in range(max_retries):
\*         try: return await fetch()
\*         except Exception:
\*             if attempt == max_retries - 1: raise
\*             await asyncio.sleep(base_delay * 2 ** attempt)
\* collect ends with "return []", the wrapper with an implicit None.
\* Delays are in hundredths of a second.

\* The largest max_retries / max_attempts of the model.
MaxRetries == 3

BackoffKinds == { "collect", "with_retry" }

\* base_delay: 0.01 s (tests/unit/test_retry.py) and the default 1.0 s.
BaseDelays == { 1, 100 }

\* What one call of the underlying fetch can do.
FetchOutcomes ==
    { [ result |-> "returned", value |-> v ] : v \in { "[]", "[item, item]" } }
      \cup { [ result |-> "raised", value |-> e ] :
                e \in { "TimeoutError", "ValueError" } }

RECURSIVE Pow2(_)
Pow2(n) == IF n = 0 THEN 1 ELSE 2 * Pow2(n - 1)

backoff_delay(base_delay, attempt) == base_delay * Pow2(attempt)

\* What the loop falls through to when range(max_retries) is empty.
FallThrough(kind) == IF kind = "collect" THEN "[]" ELSE "None"

StartCall(kind, limit, base_delay) ==
    [ phase       |-> "calling",
      kind        |-> kind,
      max_retries |-> limit,
      base_delay  |-> base_delay,
      attempt     |-> 0,
      events      |-> << >>,
      value       |-> "None" ]

FetchEvent(b, o) ==
    [ ev |-> "fetch", attempt |-> b.attempt, result |-> o.result,
      value |-> o.value, delay |-> 0 ]

SleepEvent(d) ==
    [ ev |-> "sleep", attempt |-> 0, result |-> "slept", value |-> "None",
      delay |-> d ]

\* A loop body that goes on to the next attempt after an empty list.
backoff_body_retries_empty(b, o) ==
    IF o.result = "returned" /\ o.value # "[]"
    THEN [ b EXCEPT !.phase = "returned", !.value = o.value,
                    !.events = Append(@, FetchEvent(b, o)) ]
    ELSE IF b.attempt = b.max_retries - 1
    THEN [ b EXCEPT !.phase = IF o.result = "raised" THEN "raised" ELSE "returned",
                    !.value = o.value,
                    !.events = Append(@, FetchEvent(b, o)) ]
    ELSE [ b EXCEPT !.phase = "sleeping",
                    !.events = @ \o << FetchEvent(b, o),
                                       SleepEvent(backoff_delay(b.base_delay, b.attempt)) >> ]

\* One pass through the loop body, up to its return, raise or sleep.
backoff_body(b, o) ==
    IF o.result = "returned"
    THEN [ b EXCEPT !.phase = "returned", !.value = o.value,
                    !.events = Append(@, FetchEvent(b, o)) ]
    ELSE IF b.attempt = b.max_retries - 1
    THEN [ b EXCEPT !.phase = "raised", !.value = o.value,
                    !.events = Append(@, FetchEvent(b, o)) ]
    ELSE [ b EXCEPT !.phase = "sleeping",
                    !.events = @ \o << FetchEvent(b, o),
                                       SleepEvent(backoff_delay(b.base_delay, b.attempt)) >> ]

NotBackoff ==
    << pipeline, wa_subscribers, query_log, utcnow, frontend, scheduler, runs, last_op,
    fire, breaker,
       sessions, pending_run >>

\* The loop body runs for the next value of range(max_retries).
BackoffAttempt ==
    /\ backoff.phase = "calling"
    /\ backoff.attempt < backoff.max_retries
    /\ \E o \in FetchOutcomes : backoff' = backoff_body(backoff, o)
    /\ UNCHANGED NotBackoff

\* asyncio.sleep(delay) returns and the for loop takes its next value.
BackoffWake ==
    /\ backoff.phase = "sleeping"
    /\ backoff' = [ backoff EXCEPT !.phase = "calling", !.attempt = @ + 1 ]
    /\ UNCHANGED NotBackoff

\* range(max_retries) is exhausted without a return or a raise.
BackoffFallThrough ==
    /\ backoff.phase = "calling"
    /\ backoff.attempt >= backoff.max_retries
    /\ backoff' = [ backoff EXCEPT !.phase = "returned",
                                   !.value = FallThrough(backoff.kind) ]
    /\ UNCHANGED NotBackoff

InitBackoff ==
    /\ backoff \in { StartCall(k, m, d) :
                       k \in BackoffKinds, m \in 0 .. MaxRetries, d \in BaseDelays }
    /\ PipelineIdle /\ StorageIdle /\ FrontEndIdle /\ SchedulerIdle /\ RunsIdle
    /\ FireIdle /\ BreakerIdle
    /\ SessionsIdle /\ PendingRunIdle

NextBackoff == BackoffAttempt \/ BackoffWake \/ BackoffFallThrough

SpecBackoff == InitBackoff /\ [][NextBackoff]_vars

Fetches == SelectSeq(backoff.events, LAMBDA e : e.ev = "fetch")

Sleeps == SelectSeq(backoff.events, LAMBDA e : e.ev = "sleep")

\* C13: collect and with_retry call the fetch until the first call that
\* returns (an empty list included) or until max_retries calls have raised;
\* the k-th sleep lasts base_delay * 2^(k-1) and sleeps occur between
\* consecutive attempts only; the first returned value is returned without
\* another attempt; after the last failed attempt that error is re-raised.
C13_BackoffLoop ==
    LET events == backoff.events
        n == Len(Fetches)
    IN  /\ n <= backoff.max_retries
        /\ \A i \in DOMAIN events :
              events[i].ev = (IF i % 2 = 1 THEN "fetch" ELSE "sleep")
        /\ \A k \in DOMAIN Fetches : Fetches[k].attempt = k - 1
        /\ \A k \in 1 .. n - 1 : Fetches[k].result = "raised"
        /\ \A k \in DOMAIN Sleeps :
              Sleeps[k].delay = backoff.base_delay * Pow2(k - 1)
        /\ backoff.phase \in { "calling", "sleeping" } => Len(Sleeps) = n
        /\ backoff.phase \in { "returned", "raised" }
              => Len(Sleeps) = (IF n = 0 THEN 0 ELSE n - 1)
        /\ backoff.phase = "returned" /\ n > 0
              => /\ Fetches[n].result = "returned"
                 /\ backoff.value = Fetches[n].value
        /\ backoff.phase = "returned" /\ n = 0
              => /\ backoff.max_retries = 0
                 /\ backoff.value = FallThrough(backoff.kind)
        /\ backoff.phase = "raised"
              => /\ n = backoff.max_retries
                 /\ Fetches[n].result = "raised"
                 /\ backoff.value = Fetches[n].value
        /\ backoff.phase = "calling" /\ n > 0 => Fetches[n].result = "raised"

\* C13 witness: three attempts raised, two sleeps of 1 s and 2 s lay between
\* them, and the error of the third attempt, not of the first, was raised.
C13_Witness ==
    /\ backoff.phase = "raised"
    /\ backoff.max_retries = 3
    /\ Len(Fetches) = 3
    /\ Fetches[1].value = "TimeoutError"
    /\ backoff.value = "ValueError"
    /\ Sleeps = << SleepEvent(100), SleepEvent(200) >>

\* ========================================================== storage
\* src/storage.py: the wa_subscribers and query_log tables.  A table is the
\* sequence of its rows in insertion order; the position of a row stands for
\* its uuid.  Each operation is one session, committed at its end.

\* The most rows the query log holds in the model.
MaxLog == 3
\* The latest reading of the clock in the model.
MaxClock == 3

Phones == { "+15550001", "+15550002" }

Preferences == { "news,crypto,stocks", "weather" }

\* user_id 0 is what the API logs under; the other one is a Telegram chat.
Users == { 0, 12345 }

\* select(WhatsAppSubscriber).where(phone_number == p), scalar_one_or_none:
\* the position of the row, 0 for None.
Existing(rows, phone_number) ==
    IF \E i \in DOMAIN rows : rows[i].phone_number = phone_number
    THEN CHOOSE i \in DOMAIN rows : rows[i].phone_number = phone_number
    ELSE 0

\* A subscribe that adds a row whether or not the number has one.
add_wa_subscriber_insert_only(rows, phone_number, preferences) ==
    Append(rows, [ phone_number |-> phone_number, active |-> 1,
                   preferences |-> preferences ])

add_wa_subscriber(rows, phone_number, preferences) ==
    LET existing == Existing(rows, phone_number)
    IN  IF existing # 0
        THEN [ rows EXCEPT ![existing].active = 1,
                           ![existing].preferences = preferences ]
        ELSE Append(rows, [ phone_number |-> phone_number, active |-> 1,
                            preferences |-> preferences ])

remove_wa_subscriber(rows, phone_number) ==
    LET existing == Existing(rows, phone_number)
    IN  IF existing # 0 THEN [ rows EXCEPT ![existing].active = 0 ] ELSE rows

get_wa_subscribers(rows) == SelectSeq(rows, LAMBDA r : r.active = 1)

\* log_query: the new row takes created_at from the clock when it is added.
log_query(rows, user_id, now) ==
    Append(rows, [ id |-> Len(rows) + 1, user_id |-> user_id, created_at |-> now ])

\* get_history: every list the statement
\*     select ... where user_id == u order by created_at desc limit n
\* can return.  The order of rows with equal created_at is not determined
\* by the statement, so each such order is a possible result.
get_history(rows, user_id, limit) ==
    LET mine == { i \in DOMAIN rows : rows[i].user_id = user_id }
        k == Cardinality(mine)
        orders == { f \in [ 1 .. k -> mine ] :
                      /\ \A a, b \in 1 .. k : a # b => f[a] # f[b]
                      /\ \A a, b \in 1 .. k :
                            a < b => rows[f[a]].created_at >= rows[f[b]].created_at }
        n == IF limit < k THEN limit ELSE k
    IN  { [ j \in 1 .. n |-> rows[f[j]] ] : f \in orders }

NotStorage == << pipeline, backoff, frontend, scheduler, runs,
    fire, breaker,
       sessions, pending_run >>

Subscribe ==
    /\ \E p \in Phones, prefs \in Preferences :
          /\ wa_subscribers' = add_wa_subscriber(wa_subscribers, p, prefs)
          /\ last_op' = [ last_op EXCEPT ![p] = "Subscribe" ]
    /\ UNCHANGED << query_log, utcnow, NotStorage >>

Unsubscribe ==
    /\ \E p \in Phones :
          /\ wa_subscribers' = remove_wa_subscriber(wa_subscribers, p)
          /\ last_op' = [ last_op EXCEPT ![p] = "Unsubscribe" ]
    /\ UNCHANGED << query_log, utcnow, NotStorage >>

LogQuery ==
    /\ Len(query_log) < MaxLog
    /\ \E u \in Users : query_log' = log_query(query_log, u, utcnow)
    /\ UNCHANGED << wa_subscribers, last_op, utcnow, NotStorage >>

\* The clock moves on to its next reading.
ClockTick ==
    /\ utcnow < MaxClock
    /\ utcnow' = utcnow + 1
    /\ UNCHANGED << wa_subscribers, last_op, query_log, NotStorage >>

InitStorage ==
    /\ wa_subscribers = << >>
    /\ query_log = << >>
    /\ utcnow = 0
    /\ last_op = [ p \in Phones |-> "none" ]
    /\ PipelineIdle /\ BackoffIdle /\ FrontEndIdle /\ SchedulerIdle /\ RunsIdle
    /\ FireIdle /\ BreakerIdle
    /\ SessionsIdle /\ PendingRunIdle

NextStorage == Subscribe \/ Unsubscribe \/ LogQuery \/ ClockTick

SpecStorage == InitStorage /\ [][NextStorage]_vars

\* C15: enumerate-active returns exactly the phone numbers whose most
\* recent operation was Subscribe, each exactly once; a number has at most
\* one row, which Unsubscribe keeps with active = 0 and a later Subscribe
\* re-activates.
C15_ActiveAreLastSubscribed ==
    LET active == get_wa_subscribers(wa_subscribers)
        Count(rows, p) == Cardinality({ i \in DOMAIN rows : rows[i].phone_number = p })
    IN  \A p \in Phones :
           /\ Count(active, p) = (IF last_op[p] = "Subscribe" THEN 1 ELSE 0)
           /\ Count(wa_subscribers, p) <= 1
           /\ last_op[p] = "Unsubscribe" =>
                 \A i \in DOMAIN wa_subscribers :
                    wa_subscribers[i].phone_number = p => wa_subscribers[i].active = 0

\* C15 witness: one number was subscribed, unsubscribed and subscribed again
\* with other preferences and is the only active one; the other number was
\* subscribed after it and then unsubscribed, and keeps its row.
C15_Witness ==
    /\ Len(wa_subscribers) = 2
    /\ wa_subscribers[1] = [ phone_number |-> "+15550001", active |-> 1,
                             preferences |-> "weather" ]
    /\ wa_subscribers[2].active = 0
    /\ last_op["+15550001"] = "Subscribe"
    /\ last_op["+15550002"] = "Unsubscribe"
    /\ Len(get_wa_subscribers(wa_subscribers)) = 1

\* C18: after the entry e is appended, history(e.user_id, n) with n >= 1
\* has e as its first element; history(u, n) has at most n entries, only
\* entries of user u, newest first.
C18_AppendedEntryIsFirst ==
    /\ query_log # << >> =>
          LET e == query_log[Len(query_log)]
          IN  \A n \in 1 .. MaxLog :
                 \A h \in get_history(query_log, e.user_id, n) : h[1] = e
    /\ \A u \in Users, n \in 1 .. MaxLog :
          \A h \in get_history(query_log, u, n) :
             /\ Len(h) <= n
             /\ \A j \in DOMAIN h : h[j].user_id = u
             /\ \A j \in 1 .. Len(h) - 1 : h[j].created_at >= h[j + 1].created_at

\* What holds of get_history whatever the clock does: the bounds on the
\* result, and the appended entry first when it is strictly the newest of
\* its user.
HistoryNewestFirst ==
    /\ query_log # << >> =>
          LET e == query_log[Len(query_log)]
          IN  (\A i \in 1 .. Len(query_log) - 1 :
                  query_log[i].user_id = e.user_id
                     => query_log[i].created_at < e.created_at)
                 => \A n \in 1 .. MaxLog :
                       \A h \in get_history(query_log, e.user_id, n) : h[1] = e
    /\ \A u \in Users, n \in 1 .. MaxLog :
          \A h \in get_history(query_log, u, n) :
             /\ Len(h) <= n
             /\ \A j \in DOMAIN h : h[j].user_id = u
             /\ \A j \in 1 .. Len(h) - 1 : h[j].created_at >= h[j + 1].created_at

\* ======================================================== scheduler
\* src/scheduler.py, scheduler_loop.  Time is the wall clock in seconds;
\* day d starts at d * Day.  One pass of the loop is four steps: compute the
\* target, sleep until it, fire, sleep the guard interval.

\* timedelta(days=1), in seconds.
Day == 86400
\* The guard sleep after a fire, in seconds.
GuardSeconds == 60

\* The most fires of one run of the loop in the model.
MaxFires == 2
\* The latest a sleep returns after its due time, in seconds.
MaxLate == 30
\* The longest a fire takes, in seconds.
MaxFireSeconds == 3600

\* (daily_briefing_hour, daily_briefing_minute): the default and two others.
BriefingTimes == { << 7, 0 >>, << 0, 0 >>, << 23, 59 >> }

Lateness == { 0, 1, MaxLate }

FireDurations == { 0, 1, MaxFireSeconds }

\* Where an exception is raised inside send_daily_updates, if anywhere.
FireFaults == { "none", "briefing", "group", "enumerate", "delivery" }

\* now.replace(hour=h, minute=m, second=0, microsecond=0)
Replace(now, hour, minute) == (now \div Day) * Day + hour * 3600 + minute * 60

\* A target computation that keeps a target equal to now.
next_target_not_strict(now, hour, minute) ==
    LET target == Replace(now, hour, minute)
    IN  IF now > target THEN target + Day ELSE target

next_target(now, hour, minute) ==
    LET target == Replace(now, hour, minute)
    IN  IF now >= target THEN target + Day ELSE target

\* send_daily_updates: a failing group send or subscriber delivery is caught
\* where it happens; an exception of generate_daily_briefing or of
\* get_wa_subscribers leaves the function.
send_daily_updates(fault) ==
    IF fault \in { "briefing", "enumerate" } THEN "raised" ELSE "returned"

\* A loop without the try/except around the fire.
after_fire_uncaught(outcome) == IF outcome = "raised" THEN "exited" ELSE "guard"

\* try: await send_daily_updates() / except Exception: log.  Either way the
\* loop goes on to the guard sleep.
after_fire(outcome) == "guard"

NotScheduler == << pipeline, backoff, wa_subscribers, query_log, frontend, runs, last_op,
    fire, breaker,
       sessions, pending_run >>

SchedulerCompute ==
    /\ scheduler.phase = "compute"
    /\ scheduler' = [ scheduler EXCEPT
                        !.phase = "sleeping",
                        !.now = utcnow,
                        !.target = next_target(utcnow, scheduler.hour, scheduler.minute) ]
    /\ UNCHANGED << utcnow, NotScheduler >>

\* asyncio.sleep(wait_seconds) returns, at the target or later.
SchedulerWake ==
    /\ scheduler.phase = "sleeping"
    /\ Len(scheduler.fired) < MaxFires
    /\ \E late \in Lateness : utcnow' = scheduler.target + late
    /\ scheduler' = [ scheduler EXCEPT !.phase = "firing", !.woke = utcnow' ]
    /\ UNCHANGED NotScheduler

SchedulerFire ==
    /\ scheduler.phase = "firing"
    /\ \E fault \in FireFaults, d \in FireDurations :
          /\ utcnow' = utcnow + d
          /\ scheduler' = [ scheduler EXCEPT
                !.phase = after_fire(send_daily_updates(fault)),
                !.fired = Append(@, [ occurrence |-> scheduler.target,
                                      woke       |-> scheduler.woke,
                                      fault      |-> fault,
                                      outcome    |-> send_daily_updates(fault) ]) ]
    /\ UNCHANGED NotScheduler

\* asyncio.sleep(60) returns and the while loop starts over.
SchedulerGuard ==
    /\ scheduler.phase = "guard"
    /\ \E late \in Lateness : utcnow' = utcnow + GuardSeconds + late
    /\ scheduler' = [ scheduler EXCEPT !.phase = "compute" ]
    /\ UNCHANGED NotScheduler

\* The loop starts at any time of day: at midnight, just before, at and just
\* after the configured time, and at the end of the day.
InitScheduler ==
    /\ \E t \in BriefingTimes :
          /\ scheduler = [ phase |-> "compute", hour |-> t[1], minute |-> t[2],
                           now |-> 0, target |-> 0, woke |-> 0, fired |-> << >> ]
          /\ utcnow \in { 0, Replace(0, t[1], t[2]), Replace(0, t[1], t[2]) + 1,
                          Replace(0, t[1], t[2]) + 59, Replace(0, t[1], t[2]) + 60,
                          Day - 1, Day + Replace(0, t[1], t[2]) - 1 }
    /\ wa_subscribers = << >> /\ query_log = << >> /\ last_op = << >>
    /\ PipelineIdle /\ BackoffIdle /\ FrontEndIdle /\ RunsIdle
    /\ FireIdle /\ BreakerIdle
    /\ SessionsIdle /\ PendingRunIdle

NextScheduler == SchedulerCompute \/ SchedulerWake \/ SchedulerFire \/ SchedulerGuard

SpecScheduler == InitScheduler /\ [][NextScheduler]_vars

\* C19: the target is the first occurrence of hour:minute strictly after
\* the time it is computed at; a fire for occurrence T happens at T or
\* later; the fire after the one for T is for T + 1 day, so no occurrence is
\* fired twice.
C19_NextFireStrictlyAfterNow ==
    LET fired == scheduler.fired
        n == Len(fired)
    IN  /\ (scheduler.phase # "compute" \/ n > 0) =>
              /\ scheduler.target > scheduler.now
              /\ scheduler.target - Day <= scheduler.now
              /\ scheduler.target
                   = Replace(scheduler.target, scheduler.hour, scheduler.minute)
        /\ \A k \in 1 .. n : fired[k].woke >= fired[k].occurrence
        /\ \A k \in 1 .. n - 1 : fired[k + 1].occurrence = fired[k].occurrence + Day
        /\ n > 0 /\ scheduler.phase \in { "sleeping", "firing" }
              => scheduler.target = fired[n].occurrence + Day

\* C19 witness: the first fire woke late and took an hour, the guard sleep
\* is over, and the second fire was for the occurrence one day later.
C19_Witness ==
    /\ Len(scheduler.fired) = 2
    /\ scheduler.fired[1].woke = scheduler.fired[1].occurrence + MaxLate
    /\ scheduler.fired[2].occurrence = scheduler.fired[1].occurrence + Day
    /\ scheduler.fired[2].woke > scheduler.fired[2].occurrence

\* C20: whatever is raised during a fire, the step after the fire is the
\* guard sleep, and after it the loop computes the next occurrence.
C20_FireExceptionKeepsLoop ==
    [][ /\ scheduler.phase = "firing" => scheduler'.phase = "guard"
        /\ scheduler.phase = "guard" => scheduler'.phase = "compute"
        /\ scheduler.phase = "compute" => scheduler'.phase = "sleeping" ]_vars

\* C20 witness: a fire in which get_wa_subscribers raised is over and the
\* loop sleeps until the occurrence one day later.
C20_Witness ==
    /\ Len(scheduler.fired) = 1
    /\ scheduler.fired[1].fault = "enumerate"
    /\ scheduler.fired[1].outcome = "raised"
    /\ scheduler.phase = "sleeping"
    /\ scheduler.target = scheduler.fired[1].occurrence + Day

\* ======================================================= front-ends
\* A front-end builds the initial state, awaits workflow.ainvoke(state),
\* replies and writes the query log: query of api.py, _run_workflow of
\* src/bot.py, handle_incoming_message of src/whatsapp.py.  The pipeline
\* steps are the actions above; the steps below are taken by the front-end
\* once the pipeline has stopped, or when its task is cancelled.

FrontEnds == { "api", "bot", "whatsapp" }

\* "/<source> <query>", the text of a command message.
CommandText(source, query) == Lit("/") \o Lit(source) \o Lit(" ") \o query

\* The requests of the model: free text, a preset registered source, and
\* (on POST /query, which takes any source string) an unknown source.
FrontEndRequests(kind) ==
    IF kind = "api"
    THEN { [ user_message |-> ShortMessage, source |-> src,
             query |-> IF src # "" THEN ShortMessage ELSE << >>,
             analysis_model |-> "" ] : src \in { "", "weather", UnknownSource } }
    ELSE { [ user_message |-> ShortMessage, source |-> "", query |-> << >>,
             analysis_model |-> "" ],
           [ user_message |-> CommandText("weather", ShortQuery), source |-> "weather",
             query |-> ShortQuery, analysis_model |-> "" ] }

\* user_id=0 (api), update.effective_user.id (bot), hash(phone) % 2**31.
FrontEndUser(kind) ==
    CASE kind = "api" -> 0
      [] kind = "bot" -> 12345
      [] OTHER -> 40961

NoReply == [ how |-> "none", text |-> << >> ]

\* The reply after a pipeline that returned: the response field, which the
\* WhatsApp handler passes through _clean_for_whatsapp.
ResponseReply(kind, st) ==
    [ how |-> IF kind = "whatsapp" THEN "cleaned response" ELSE "response",
      text |-> st.response ]

\* The reply after a pipeline that raised.
ErrorReply(kind) ==
    [ how |-> IF kind = "api" THEN "HTTP 500" ELSE "error text", text |-> << >> ]

LogOutcomes == { "written", "raised" }

\* A front-end in which an exception of the log write is not caught.
after_log_uncaught(outcome) == outcome # "written"

\* try: await log_query(...) / except Exception: whether the exception of
\* the log write leaves the handler.
after_log(outcome) == FALSE

InFlight == pc \in { "route_llm", "collect_fetch", "analyze_llm" }

NotFrontEnd ==
    << backoff, wa_subscribers, utcnow, scheduler, runs, last_op, fire, breaker,
       sessions, pending_run >>

\* api.py: ainvoke raised; raise HTTPException(500), before any log write.
ApiPipelineError ==
    /\ frontend.kind = "api" /\ frontend.phase = "running"
    /\ pc = "raised"
    /\ frontend' = [ frontend EXCEPT !.phase = "done", !.reply = ErrorReply("api") ]
    /\ UNCHANGED << pipeline, query_log, NotFrontEnd >>

\* api.py: ainvoke returned; the log write, inside try/except Exception.
ApiLog ==
    /\ frontend.kind = "api" /\ frontend.phase = "running"
    /\ pc = "END"
    /\ \E outcome \in LogOutcomes :
          /\ query_log' = IF outcome = "written"
                          THEN log_query(query_log, FrontEndUser("api"), utcnow)
                          ELSE query_log
          /\ frontend' = [ frontend EXCEPT !.phase = "return", !.log = outcome,
                                           !.propagated = after_log(outcome) ]
    /\ UNCHANGED << pipeline, NotFrontEnd >>

\* api.py: return QueryResponse(...), or the error of the log write.
ApiReturn ==
    /\ frontend.kind = "api" /\ frontend.phase = "return"
    /\ frontend' = [ frontend EXCEPT
                       !.phase = "done",
                       !.reply = IF frontend.propagated THEN ErrorReply("api")
                                 ELSE ResponseReply("api", state) ]
    /\ UNCHANGED << pipeline, query_log, NotFrontEnd >>

\* bot / whatsapp: response_text from the result or from the exception, then
\* reply_text / send_whatsapp_message.
ChatReply ==
    /\ frontend.kind \in { "bot", "whatsapp" } /\ frontend.phase = "running"
    /\ pc \in { "END", "raised" }
    /\ frontend' = [ frontend EXCEPT
                       !.phase = "log",
                       !.reply = IF pc = "END" THEN ResponseReply(frontend.kind, state)
                                 ELSE ErrorReply(frontend.kind) ]
    /\ UNCHANGED << pipeline, query_log, NotFrontEnd >>

\* bot / whatsapp: the log write after the reply, inside try/except.  The
\* argument source or result.get("source", "auto") reads result, which is
\* unbound when ainvoke raised: with no preset source that is a NameError
\* inside the try and log_query is not called.
ChatLog ==
    /\ frontend.kind \in { "bot", "whatsapp" } /\ frontend.phase = "log"
    /\ IF request.source = "" /\ pc = "raised"
       THEN /\ query_log' = query_log
            /\ frontend' = [ frontend EXCEPT !.phase = "done", !.log = "NameError",
                                             !.propagated = after_log("NameError") ]
       ELSE \E outcome \in LogOutcomes :
               /\ query_log' = IF outcome = "written"
                               THEN log_query(query_log, FrontEndUser(frontend.kind), utcnow)
                               ELSE query_log
               /\ frontend' = [ frontend EXCEPT !.phase = "done", !.log = outcome,
                                                !.propagated = after_log(outcome) ]
    /\ UNCHANGED << pipeline, NotFrontEnd >>

\* A cancellation that leaves the handle of the pending call open.
CancelNoFinally ==
    /\ frontend.phase = "running"
    /\ InFlight
    /\ pc' = "cancelled"
    /\ frontend' = [ frontend EXCEPT !.phase = "cancelled" ]
    /\ UNCHANGED << request, state, handles, steps, attempts, routing, llm_binding,
                    query_log, NotFrontEnd >>

\* The task of the handler is cancelled while the node awaits the collector
\* or the LLM: CancelledError is raised at that await, the finally clause of
\* the node closes the handle, and no except Exception clause of the node
\* or of the front-end catches it.
Cancel ==
    /\ frontend.phase = "running"
    /\ InFlight
    /\ handles' = Close(handles)
    /\ pc' = "cancelled"
    /\ frontend' = [ frontend EXCEPT !.phase = "cancelled" ]
    /\ UNCHANGED << request, state, steps, attempts, routing, llm_binding,
                    query_log, NotFrontEnd >>

InitFrontEnd ==
    /\ frontend \in { [ kind |-> k, phase |-> "running", reply |-> NoReply,
                        log |-> "none", propagated |-> FALSE ] : k \in FrontEnds }
    /\ request \in FrontEndRequests(frontend.kind)
    /\ state = InitialState(request.user_message, request.source, request.query,
                            request.analysis_model)
    /\ pc = "route"
    /\ handles = << >>
    /\ steps = NoSteps
    /\ attempts = << >>
    /\ routing = NoRouting
    /\ llm_binding \in LlmBindings
    /\ wa_subscribers = << >> /\ query_log = << >> /\ utcnow = 0 /\ last_op = << >>
    /\ BackoffIdle /\ SchedulerIdle /\ RunsIdle
    /\ FireIdle /\ BreakerIdle
    /\ SessionsIdle /\ PendingRunIdle

NextFrontEnd ==
    \/ RoutePassthrough
    \/ RouteGetLlm
    \/ RouteComplete
    \/ CollectGet
    \/ CollectFetch
    \/ Retry
    \/ AnalyzeSkip
    \/ AnalyzeGetLlm
    \/ AnalyzeComplete
    \/ Respond
    \/ ApiPipelineError
    \/ ApiLog
    \/ ApiReturn
    \/ ChatReply
    \/ ChatLog
    \/ Cancel

SpecFrontEnd == InitFrontEnd /\ [][NextFrontEnd]_vars

\* C12: when the caller is cancelled while a collector fetch or an LLM call
\* is in flight, every handle the run opened is closed, once, and the run
\* writes no query-log entry and sends no reply.
C12_CancelReleasesAndLogsNothing ==
    frontend.phase = "cancelled"
       => /\ \A i \in DOMAIN handles : ~handles[i].open /\ handles[i].closes = 1
          /\ query_log = << >>
          /\ frontend.reply = NoReply
          /\ frontend.log = "none"

\* C12 witness: a run cancelled during the fetch of its second collector.
C12_Witness ==
    /\ frontend.phase = "cancelled"
    /\ Len(attempts) = 1
    /\ Len(handles) >= 2
    /\ handles[Len(handles)].kind = "collector"

\* C16: every invocation that ends with a reply to the caller, a normal
\* response or an error reply, has appended its query-log entry.
C16_EveryReplyIsLogged ==
    (frontend.phase = "done" /\ frontend.reply # NoReply)
       => /\ Len(query_log) = 1
          /\ query_log[1].user_id = FrontEndUser(frontend.kind)

\* C17: when the log write fails, the caller gets the reply it gets when
\* the write succeeds, and no error leaves the handler.
C17_LogFailureNeverFailsRequest ==
    (frontend.phase = "done" /\ frontend.log \in { "raised", "NameError" })
       => /\ ~frontend.propagated
          /\ frontend.reply = (IF pc = "END" THEN ResponseReply(frontend.kind, state)
                               ELSE ErrorReply(frontend.kind))

\* C17 witness: the API returned the response of a finished run although its
\* log write raised.
C17_Witness ==
    /\ frontend.kind = "api"
    /\ frontend.phase = "done"
    /\ frontend.log = "raised"
    /\ pc = "END"
    /\ frontend.reply = [ how |-> "response", text |-> state.response ]
    /\ query_log = << >>

\* ================================================== concurrent runs
\* Two executions of the compiled workflow in flight at once, as when two
\* requests reach a front-end.  Each run has its own state dict, which every
\* node copies ({**state, ...}, list(state.get("tried_sources", []))), and
\* get_collector returns a new collector instance at every call (cls()).
\* A run is given, in advance, what its LLM calls and its collectors will do
\* (its script), so that the same run can be replayed alone.

RunIds == { 1, 2 }

\* What the k-th collect attempt of a run meets: an exception, or k items.
ScriptedCollects ==
    { << [ raised |-> FALSE, k |-> 1 ] >>,
      << [ raised |-> FALSE, k |-> 0 ], [ raised |-> FALSE, k |-> 1 ] >>,
      << [ raised |-> TRUE, k |-> 0 ], [ raised |-> FALSE, k |-> 0 ],
         [ raised |-> FALSE, k |-> 0 ] >> }

Scripts ==
    [ route   : { [ raised |-> TRUE, answer |-> << >> ],
                  [ raised |-> FALSE, answer |-> << Ws, Obj("weather", "London"), Ws >> ] },
      collect : ScriptedCollects,
      analyze : { [ raised |-> TRUE, text |-> << >> ],
                  [ raised |-> FALSE, text |-> Txt("briefing", ShortLen) ] } ]

RunRequests ==
    { [ user_message |-> ShortMessage, source |-> "", query |-> << >>,
        analysis_model |-> "" ],
      [ user_message |-> ShortMessage, source |-> "weather", query |-> ShortQuery,
        analysis_model |-> "" ] }

\* A get_collector that hands every caller the same module-level instance.
collector_instance_shared(id, n) == << 0, 0 >>

\* get_collector: cls(), a new instance for the n-th collect of run id.
collector_instance(id, n) == << id, n >>

\* What the collector does at the n-th attempt of the run.  A collector
\* that has been closed in the meantime raises.
ScriptedOutcome(r, open) ==
    LET c == IF r.n <= Len(r.script.collect) THEN r.script.collect[r.n]
             ELSE [ raised |-> FALSE, k |-> 0 ]
    IN  IF r.instance \notin open
        THEN [ raised |-> TRUE, message |-> Txt("client closed", ShortLen), items |-> << >> ]
        ELSE IF c.raised
        THEN [ raised |-> TRUE, message |-> Txt("timeout", ShortLen), items |-> << >> ]
        ELSE [ raised |-> FALSE, message |-> << >>, items |-> RawItems(c.k, r.state.source) ]

\* The state route_node returns after the completion, lines 64-84.
route_result(st, o) ==
    LET p == IF o.raised THEN [ ok |-> FALSE, source |-> "", query |-> << >> ]
             ELSE route_parse(o.answer, st.user_message)
    IN  IF p.ok
        THEN [ st EXCEPT !.source = p.source, !.query = p.query,
                         !.tried_sources = << >>, !.retry_count = 0 ]
        ELSE [ st EXCEPT !.source = "news", !.query = st.user_message,
                         !.tried_sources = << >>, !.retry_count = 0 ]

StartRun(id, req, script) ==
    [ id       |-> id,
      request  |-> req,
      script   |-> script,
      state    |-> InitialState(req.user_message, req.source, req.query,
                                req.analysis_model),
      pc       |-> "route",
      n        |-> 0,
      instance |-> << 0, 0 >>,
      overlap  |-> FALSE ]

\* The next step of run r, up to its next await or to the end of its node:
\* the run after it, and the collector instances then open.
Advance(r, open) ==
    CASE r.pc = "route" ->
           [ run |-> IF is_preset(r.state)
                     THEN [ r EXCEPT !.state = [ @ EXCEPT !.tried_sources = << >>,
                                                          !.retry_count = 0 ],
                                     !.pc = "collect" ]
                     ELSE [ r EXCEPT !.pc = IF get_llm_client(llm_binding) = "client"
                                            THEN "route_llm" ELSE "raised" ],
             open |-> open ]
      [] r.pc = "route_llm" ->
           [ run |-> [ r EXCEPT !.state = route_result(@, r.script.route),
                                !.pc = "collect" ],
             open |-> open ]
      [] r.pc = "collect" ->
           LET c == get_collector(r.state.source)
               st == collect_result(r.state, [ raised |-> TRUE, message |-> c.message,
                                               items |-> << >> ])
           IN  IF c.ok
               THEN [ run |-> [ r EXCEPT !.pc = "collect_fetch", !.n = @ + 1,
                                         !.instance = collector_instance(r.id, r.n + 1) ],
                      open |-> open \cup { collector_instance(r.id, r.n + 1) } ]
               ELSE [ run |-> [ r EXCEPT !.state = st, !.pc = should_retry(st),
                                         !.n = @ + 1 ],
                      open |-> open ]
      [] r.pc = "collect_fetch" ->
           LET st == collect_result(r.state, ScriptedOutcome(r, open))
           IN  [ run |-> [ r EXCEPT !.state = st, !.pc = should_retry(st) ],
                 open |-> open \ { r.instance } ]
      [] r.pc = "retry" ->
           [ run |-> [ r EXCEPT !.state = retry_result(@), !.pc = "collect" ],
             open |-> open ]
      [] r.pc = "analyze" ->
           [ run |-> IF r.state.error # << >> \/ r.state.items = << >>
                     THEN [ r EXCEPT !.state = [ @ EXCEPT !.analysis = r.state.error ],
                                     !.pc = "respond" ]
                     ELSE [ r EXCEPT !.pc = IF get_llm_client(llm_binding) = "client"
                                            THEN "analyze_llm" ELSE "raised" ],
             open |-> open ]
      [] r.pc = "analyze_llm" ->
           [ run |-> [ r EXCEPT !.state = [ @ EXCEPT !.analysis =
                                              IF r.script.analyze.raised
                                              THEN analyze_fallback(r.state)
                                              ELSE r.script.analyze.text ],
                                !.pc = "respond" ],
             open |-> open ]
      [] OTHER ->
           [ run |-> [ r EXCEPT !.state = respond_result(@), !.pc = "END" ],
             open |-> open ]

RunStopped(r) == r.pc \in { "END", "raised" }

\* The run executed alone, from r to its end.
RECURSIVE Alone(_, _)
Alone(r, open) ==
    IF RunStopped(r) THEN r
    ELSE LET a == Advance(r, open) IN Alone(a.run, a.open)

\* The fields of a stopped run that a caller can see.
Final(r) ==
    [ pc            |-> r.pc,
      source        |-> r.state.source,
      tried_sources |-> r.state.tried_sources,
      retry_count   |-> r.state.retry_count,
      items         |-> r.state.items,
      error         |-> r.state.error,
      response      |-> r.state.response ]

Awaiting(r) == r.pc \in { "route_llm", "collect_fetch", "analyze_llm" }

NotRuns ==
    << pipeline, backoff, wa_subscribers, query_log, utcnow, frontend, scheduler, last_op,
    fire, breaker,
       sessions, pending_run >>

\* The runs after run i has taken its next step.
Stepped(i) ==
    LET a == Advance(runs.run[i], runs.open)
        other == runs.run[3 - i]
    IN  [ run  |-> [ runs.run EXCEPT
                       ![i] = [ a.run EXCEPT !.overlap = @ \/ Awaiting(other) ] ],
          open |-> a.open ]

RunRoute ==
    /\ \E i \in RunIds : runs.run[i].pc = "route" /\ runs' = Stepped(i)
    /\ UNCHANGED NotRuns

RunRouteLlm ==
    /\ \E i \in RunIds : runs.run[i].pc = "route_llm" /\ runs' = Stepped(i)
    /\ UNCHANGED NotRuns

RunCollect ==
    /\ \E i \in RunIds : runs.run[i].pc = "collect" /\ runs' = Stepped(i)
    /\ UNCHANGED NotRuns

RunCollectFetch ==
    /\ \E i \in RunIds : runs.run[i].pc = "collect_fetch" /\ runs' = Stepped(i)
    /\ UNCHANGED NotRuns

RunRetry ==
    /\ \E i \in RunIds : runs.run[i].pc = "retry" /\ runs' = Stepped(i)
    /\ UNCHANGED NotRuns

RunAnalyze ==
    /\ \E i \in RunIds : runs.run[i].pc = "analyze" /\ runs' = Stepped(i)
    /\ UNCHANGED NotRuns

RunAnalyzeLlm ==
    /\ \E i \in RunIds : runs.run[i].pc = "analyze_llm" /\ runs' = Stepped(i)
    /\ UNCHANGED NotRuns

RunRespond ==
    /\ \E i \in RunIds : runs.run[i].pc = "respond" /\ runs' = Stepped(i)
    /\ UNCHANGED NotRuns

InitRuns ==
    /\ \E req1 \in RunRequests, req2 \in RunRequests, s1 \in Scripts, s2 \in Scripts :
          runs = [ run  |-> << StartRun(1, req1, s1), StartRun(2, req2, s2) >>,
                   open |-> { } ]
    /\ request = [ user_message |-> << >>, source |-> "", query |-> << >>,
                   analysis_model |-> "" ]
    /\ state = InitialState(<< >>, "", << >>, "")
    /\ pc = "idle"
    /\ handles = << >>
    /\ steps = NoSteps
    /\ attempts = << >>
    /\ routing = NoRouting
    /\ llm_binding \in LlmBindings
    /\ StorageIdle /\ BackoffIdle /\ FrontEndIdle /\ SchedulerIdle
    /\ FireIdle /\ BreakerIdle
    /\ SessionsIdle /\ PendingRunIdle

NextRuns ==
    \/ RunRoute
    \/ RunRouteLlm
    \/ RunCollect
    \/ RunCollectFetch
    \/ RunRetry
    \/ RunAnalyze
    \/ RunAnalyzeLlm
    \/ RunRespond

SpecRuns == InitRuns /\ [][NextRuns]_vars

\* C11: under every interleaving of the steps of two runs, a run that has
\* stopped has the source, tried_sources, retry_count, items, error and
\* response it has when it runs alone with the same request and the same
\* collector and LLM outcomes.
C11_RunsAreReentrant ==
    \A i \in RunIds :
       LET r == runs.run[i]
       IN  RunStopped(r)
              => Final(r) = Final(Alone(StartRun(i, r.request, r.script), { }))

\* C11 witness: two runs for the same preset source have ended, each having
\* taken steps while the other awaited a collector or the LLM; the first
\* fell back once, the second got items at once.
C11_Witness ==
    /\ runs.run[1].pc = "END" /\ runs.run[2].pc = "END"
    /\ runs.run[1].overlap /\ runs.run[2].overlap
    /\ runs.run[1].request.source = "weather"
    /\ runs.run[2].request.source = "weather"
    /\ Len(runs.run[1].state.tried_sources) = 2
    /\ Len(runs.run[2].state.tried_sources) = 1
    /\ runs.run[1].state.items # << >> /\ runs.run[2].state.items # << >>

\* ============================================= the edges of the graph

\* C27: after a collect step the next step is analyze when items are
\* non-empty, analyze when items are empty and retry_count >= 2, and retry
\* otherwise; a retry step is followed by a collect step; analyze is
\* followed by respond, and respond by END.
C27_EdgesOfTheGraph ==
    [][ /\ (pc \in { "collect", "collect_fetch" } /\ pc' # "collect_fetch")
            => pc' = (IF state'.items # << >> THEN "analyze"
                      ELSE IF state'.retry_count >= 2 THEN "analyze"
                      ELSE "retry")
        /\ pc = "retry" => pc' = "collect"
        /\ pc = "analyze" => pc' \in { "analyze_llm", "respond" }
        /\ pc = "analyze_llm" => pc' = "respond"
        /\ pc = "respond" => pc' = "END" ]_vars

\* The edges out of collect and retry, and those out of analyze and respond
\* once analyze_node has returned.
EdgesWhenNodesReturn ==
    [][ /\ (pc \in { "collect", "collect_fetch" } /\ pc' # "collect_fetch")
            => pc' = (IF state'.items # << >> THEN "analyze"
                      ELSE IF state'.retry_count >= 2 THEN "analyze"
                      ELSE "retry")
        /\ pc = "retry" => pc' = "collect"
        /\ pc = "analyze" => pc' \in { "analyze_llm", "respond", "raised" }
        /\ pc = "analyze_llm" => pc' = "respond"
        /\ pc = "respond" => pc' = "END" ]_vars

\* C28: the retry step takes the fallback list of tried_sources[0], the
\* original source, and its first entry that is not in tried_sources; with
\* such an entry it sets source to it, clears error and adds 1 to
\* retry_count; with none it sets retry_count = 99 and changes nothing else.
C28_RetryStep ==
    [][ pc = "retry" =>
          LET tried == state.tried_sources
              fb == Fallbacks(tried[1])
              untried == { i \in DOMAIN fb :
                             \A j \in DOMAIN tried : tried[j] # fb[i] }
          IN  IF untried = { }
              THEN state' = [ state EXCEPT !.retry_count = 99 ]
              ELSE LET first == CHOOSE i \in untried : \A k \in untried : i <= k
                   IN  state' = [ state EXCEPT !.source = fb[first],
                                               !.error = << >>,
                                               !.retry_count = @ + 1 ] ]_vars

\* C28 witness: the second retry step of a run has chosen the second
\* fallback of the original source, where the list of the current source
\* starts with another one.
C28_Witness ==
    /\ steps.retry = 2
    /\ pc = "collect"
    /\ state.tried_sources = << "wikipedia", "ddg" >>
    /\ state.source = "news"
    /\ state.retry_count = 2
    /\ state.error = << >>

AnalyzeEnteredWithoutDataHasError ==
    (pc = "analyze" /\ state.items = << >>) => state.error # << >>

AnalysisTexts == { o.text : o \in { x \in AnalyzeLlmOutcomes : ~x.raised } }

\* text lists the titles of the first five items, one bullet each, in order.
IsTitleAssembly(text, items) ==
    LET bullets == { i \in DOMAIN text : text[i].s = "<bullet> *" }
        n == IF Len(items) < 5 THEN Len(items) ELSE 5
        Before(i) == Cardinality({ j \in bullets : j < i })
    IN  /\ text # << >>
        /\ Cardinality(bullets) = n
        /\ \A i \in bullets :
              /\ i < Len(text)
              /\ << text[i + 1] >> = items[Before(i) + 1].title

GroupCut == 4000
\* send_daily_updates, line 74: briefing[:4096]
SubscriberCut == 4096
\* send_greenapi_message: text[i : i + 4000]
GreenApiChunk == 4000
\* send_whatsapp_message, Meta Cloud API: text[i : i + 4096]
MetaChunk == 4096

\* settings.daily_briefing_sources_list: no source, one, and two in an
\* order that is not the alphabetical one.
FireSourceLists == { << >>, << "weather" >>, << "news", "crypto" >> }

\* The rows of wa_subscribers a fire finds.
SubscriberTables ==
    { << >>,
      remove_wa_subscriber(
          add_wa_subscriber(add_wa_subscriber(<< >>, "+15550001", "weather"),
                            "+15550002", "weather"), "+15550001"),
      add_wa_subscriber(add_wa_subscriber(<< >>, "+15550001", "weather"),
                        "+15550002", "weather") }

\* query_map.get(source, "trending")
query_map(source) ==
    CASE source = "news" -> Lit("top technology and AI news today")
      [] source = "crypto" -> Lit("trending")
      [] source = "stocks" -> Lit("AAPL,GOOGL,MSFT,NVDA,TSLA")
      [] source = "weather" -> Lit("New York")
      [] source = "reddit" -> Lit("trending technology")
      [] source = "arxiv" -> Lit("latest AI research")
      [] source = "github" -> Lit("trending repositories")
      [] OTHER -> Lit("trending")

\* text[k:]
RECURSIVE Drop(_, _)
Drop(t, k) ==
    IF t = << >> \/ k = 0 THEN t
    ELSE IF Head(t).n <= k
         THEN Drop(Tail(t), k - Head(t).n)
         ELSE << [Head(t) EXCEPT !.n = @ - k] >> \o Tail(t)

\* [text[i : i + size] for i in range(0, len(text), size)]
RECURSIVE Chunks(_, _)
Chunks(text, size) ==
    IF text = << >> THEN << >>
    ELSE << Take(text, size) >> \o Chunks(Drop(text, size), size)

\* The pieces of one segment that a slice has separated, put together again.
RECURSIVE Merge(_)
Merge(t) ==
    IF Len(t) < 2 THEN t
    ELSE LET a == t[1]
             b == t[2]
         IN  IF a.s = b.s /\ a.of = b.of /\ a.n + b.n <= a.of
             THEN Merge(<< [a EXCEPT !.n = a.n + b.n] >> \o Tail(Tail(t)))
             ELSE << a >> \o Merge(Tail(t))

RECURSIVE Concat(_)
Concat(texts) == IF texts = << >> THEN << >> ELSE Head(texts) \o Concat(Tail(texts))

\* "--- {source.upper()} ---\n{body}"
Section(source, body) ==
    Lit("--- ") \o Lit(Upper(source)) \o Lit(" ---") \o NL \o body

\* generate_daily_briefing, lines 43-50: what one run adds to sections.
generate_section(sections, source, raised, analysis) ==
    IF raised
    THEN Append(sections, Section(source, Lit("Unavailable today.")))
    ELSE IF analysis # << >>
         THEN Append(sections, Section(source, analysis))
         ELSE sections

\* "\n\n".join(sections)
RECURSIVE JoinSections(_)
JoinSections(sections) ==
    IF sections = << >> THEN << >>
    ELSE IF Len(sections) = 1 THEN Head(sections)
    ELSE Head(sections) \o NL \o NL \o JoinSections(Tail(sections))

\* The header line; strftime("%B %d, %Y") is at most 18 characters.
BriefingHeader ==
    Lit("Good morning! Here's your daily briefing for ") \o Txt("%B %d, %Y", 18)
    \o Lit(":") \o NL \o NL

PostFailures == { "status", "exception" }

\* send_greenapi_message: every chunk is posted; a response other than 200
\* and an exception of the post are logged.
send_greenapi_message(chat_id, text, at, how) ==
    LET chunks == Chunks(text, GreenApiChunk)
    IN  [ to |-> chat_id,
          posts |-> [ i \in DOMAIN chunks |->
                        [ text |-> chunks[i],
                          result |-> IF i = at THEN how ELSE "200" ] ],
          raised |-> FALSE ]

\* send_whatsapp_message: Green API when it is configured, else the Meta
\* Cloud API, where an exception of a post leaves the function.
send_whatsapp_message(to, text, greenapi, at, how) ==
    IF greenapi THEN send_greenapi_message(to, text, at, how)
    ELSE LET chunks == Chunks(text, MetaChunk)
             stops == at \in DOMAIN chunks /\ how = "exception"
             last == IF stops THEN at ELSE Len(chunks)
         IN  [ to |-> to,
               posts |-> [ i \in 1 .. last |->
                             [ text |-> chunks[i],
                               result |-> IF i = at THEN how ELSE "200" ] ],
               raised |-> stops ]

\* A fire in which an exception of one send leaves send_daily_updates.
after_send_uncaught(f, raised, next) == IF raised THEN "raised" ELSE next

\* try: await send... / except Exception: the loop goes on to the next
\* recipient.
after_send(f, raised, next) == next

NotFire ==
    << backoff, wa_subscribers, query_log, utcnow, frontend, scheduler, runs, last_op,
       breaker,
       sessions, pending_run >>

\* generate_daily_briefing, lines 31-44: the state of the next source is
\* handed to workflow.ainvoke.
FireInvoke ==
    /\ fire.phase = "generate"
    /\ fire.idx < Len(fire.sources)
    /\ LET source == fire.sources[fire.idx + 1]
       IN  /\ request' = [ user_message |-> Lit("Daily ") \o Lit(source) \o Lit(" update"),
                           source |-> source,
                           query |-> query_map(source),
                           analysis_model |-> "" ]
           /\ state' = InitialState(request'.user_message, source, request'.query, "")
           /\ fire' = [ fire EXCEPT !.phase = "running", !.invoked = Append(@, source) ]
    /\ pc' = "route"
    /\ handles' = << >>
    /\ steps' = NoSteps
    /\ attempts' = << >>
    /\ routing' = NoRouting
    /\ UNCHANGED << llm_binding, NotFire >>

\* lines 45-50: ainvoke has returned or raised.
FireSection ==
    /\ fire.phase = "running"
    /\ pc \in { "END", "raised" }
    /\ fire' = [ fire EXCEPT
                   !.phase = "generate",
                   !.idx = @ + 1,
                   !.sections = generate_section(@, fire.sources[fire.idx + 1],
                                                 pc = "raised", state.analysis) ]
    /\ request' = [ user_message |-> << >>, source |-> "", query |-> << >>,
                    analysis_model |-> "" ]
    /\ state' = InitialState(<< >>, "", << >>, "")
    /\ pc' = "idle"
    /\ handles' = << >>
    /\ steps' = NoSteps
    /\ attempts' = << >>
    /\ routing' = NoRouting
    /\ UNCHANGED << llm_binding, NotFire >>

\* lines 52-53 and 58-62: the briefing is put together.
FireBriefing ==
    /\ fire.phase = "generate"
    /\ fire.idx = Len(fire.sources)
    /\ fire' = [ fire EXCEPT !.phase = IF fire.group_id THEN "group" ELSE "enumerate",
                             !.briefing = BriefingHeader \o JoinSections(fire.sections) ]
    /\ UNCHANGED << pipeline, NotFire >>

\* lines 63-67: send_to_group(briefing[:4000])
FireGroup ==
    /\ fire.phase = "group"
    /\ LET text == Take(fire.briefing, GroupCut)
       IN  \E at \in 0 .. Len(Chunks(text, GreenApiChunk)), how \in PostFailures :
              LET sent == send_greenapi_message("group", text, at, how)
              IN  fire' = [ fire EXCEPT
                              !.sends = Append(@, sent),
                              !.phase = after_send(fire, sent.raised, "enumerate") ]
    /\ UNCHANGED << pipeline, NotFire >>

\* line 70: get_wa_subscribers() returns the active rows or raises.
FireEnumerate ==
    /\ fire.phase = "enumerate"
    /\ \E ok \in BOOLEAN :
          fire' = IF ok
                  THEN LET rows == get_wa_subscribers(wa_subscribers)
                       IN  [ fire EXCEPT
                               !.subs = [ i \in DOMAIN rows |-> rows[i].phone_number ],
                               !.phase = IF rows = << >> THEN "returned" ELSE "deliver" ]
                  ELSE [ fire EXCEPT !.phase = "raised" ]
    /\ UNCHANGED << pipeline, NotFire >>

\* lines 72-76: send_whatsapp_message(sub.phone_number, briefing[:4096])
FireDeliver ==
    /\ fire.phase = "deliver"
    /\ LET to == fire.subs[fire.sub_idx + 1]
           text == Take(fire.briefing, SubscriberCut)
           size == IF fire.greenapi THEN GreenApiChunk ELSE MetaChunk
           next == IF fire.sub_idx + 1 = Len(fire.subs) THEN "returned" ELSE "deliver"
       IN  \E at \in 0 .. Len(Chunks(text, size)), how \in PostFailures :
              LET sent == send_whatsapp_message(to, text, fire.greenapi, at, how)
              IN  fire' = [ fire EXCEPT
                              !.sends = Append(@, sent),
                              !.sub_idx = @ + 1,
                              !.phase = after_send(fire, sent.raised, next) ]
    /\ UNCHANGED << pipeline, NotFire >>

\* The task of scheduler_loop is cancelled: CancelledError is raised at the
\* await the task is suspended in.  No except Exception clause of the
\* pipeline, of generate_daily_briefing, of the senders, of
\* send_daily_updates or of scheduler_loop catches it, and nothing shields
\* the fire; the finally clause of a suspended node closes its handle.
FireCancel ==
    /\ \/ fire.phase = "running" /\ InFlight
       \/ fire.phase \in { "group", "enumerate", "deliver", "returned", "raised" }
    /\ fire' = [ fire EXCEPT !.phase = "cancelled", !.left_at = fire.phase ]
    /\ IF fire.phase = "running"
       THEN handles' = Close(handles) /\ pc' = "cancelled"
       ELSE handles' = handles /\ pc' = pc
    /\ UNCHANGED << request, state, steps, attempts, routing, llm_binding, NotFire >>

InitFire ==
    /\ fire \in { [ phase |-> "generate", sources |-> l, idx |-> 0, invoked |-> << >>,
                    sections |-> << >>, briefing |-> << >>, group_id |-> g,
                    greenapi |-> a, subs |-> << >>, sub_idx |-> 0, sends |-> << >>,
                    left_at |-> "none" ] :
                    l \in FireSourceLists, g \in BOOLEAN, a \in BOOLEAN }
    /\ wa_subscribers \in SubscriberTables
    /\ request = [ user_message |-> << >>, source |-> "", query |-> << >>,
                   analysis_model |-> "" ]
    /\ state = InitialState(<< >>, "", << >>, "")
    /\ pc = "idle"
    /\ handles = << >>
    /\ steps = NoSteps
    /\ attempts = << >>
    /\ routing = NoRouting
    /\ llm_binding \in LlmBindings
    /\ query_log = << >> /\ utcnow = 0 /\ last_op = << >>
    /\ BackoffIdle /\ FrontEndIdle /\ SchedulerIdle /\ RunsIdle /\ BreakerIdle
    /\ SessionsIdle /\ PendingRunIdle

\* Every run of a fire has its source and its query set, so the route step
\* never asks the LLM.
NextFire ==
    \/ RoutePassthrough
    \/ CollectGet
    \/ CollectFetch
    \/ Retry
    \/ AnalyzeSkip
    \/ AnalyzeGetLlm
    \/ AnalyzeComplete
    \/ Respond
    \/ FireInvoke
    \/ FireSection
    \/ FireBriefing
    \/ FireGroup
    \/ FireEnumerate
    \/ FireDeliver
    \/ FireCancel

SpecFire == InitFire /\ [][NextFire]_vars

\* The recipients of the sends made so far, in order.
Recipients == [ i \in DOMAIN fire.sends |-> fire.sends[i].to ]

\* The group, when it is configured.
GroupRecipient == IF fire.group_id THEN << "group" >> ELSE << >>

\* The phone numbers of the active rows, in table order.
ActivePhones ==
    LET rows == get_wa_subscribers(wa_subscribers)
    IN  [ i \in DOMAIN rows |-> rows[i].phone_number ]

\* C21: a cancellation that arrives while a fire is executing does not
\* interrupt it: the scheduler is only ever cancelled after
\* send_daily_updates has returned or raised, at its next sleep.
C21_CancellationWaitsForTheFire ==
    fire.phase = "cancelled" => fire.left_at \in { "returned", "raised" }

\* C22: the group, when configured, is sent to first, then every active
\* subscriber once, in order; no failed send keeps the fire from the
\* recipients after it.
C22_GroupThenEverySubscriberOnce ==
    LET expected == GroupRecipient \o ActivePhones
    IN  /\ Len(Recipients) <= Len(expected)
        /\ Recipients = SubSeq(expected, 1, Len(Recipients))
        /\ fire.phase = "enumerate" => Recipients = GroupRecipient
        /\ fire.phase = "deliver" => Len(Recipients) >= Len(GroupRecipient)
        /\ fire.phase = "raised" => Recipients = GroupRecipient
        /\ fire.phase = "returned" => Recipients = expected

\* C22 witness: the post to the group failed and the send to the first
\* subscriber raised; the second subscriber has had its send and the fire
\* has returned.
C22_Witness ==
    /\ fire.phase = "returned"
    /\ Recipients = << "group", "+15550001", "+15550002" >>
    /\ fire.sends[1].posts[1].result = "exception"
    /\ fire.sends[2].raised
    /\ ~fire.sends[3].raised

\* The chunks posted in one send, put together.
Posted(sent) == Merge(Concat([ i \in DOMAIN sent.posts |-> sent.posts[i].text ]))

\* C23: every recipient is sent the whole briefing: the chunks posted to it
\* put together are the briefing, and no chunk for the group is over 4000
\* characters.
C23_WholeBriefingToEveryRecipient ==
    \A i \in DOMAIN fire.sends :
       /\ Posted(fire.sends[i]) = Merge(fire.briefing)
       /\ fire.sends[i].to = "group"
             => \A j \in DOMAIN fire.sends[i].posts :
                   TextLen(fire.sends[i].posts[j].text) <= 4000

\* A briefing that is not over the cut of its recipient arrives whole.
BriefingsWithinTheCutArriveWhole ==
    \A i \in DOMAIN fire.sends :
       TextLen(fire.briefing) <= GroupCut
          => Posted(fire.sends[i]) = Merge(fire.briefing)

\* The names in the section headers of a briefing, in order.
RECURSIVE SectionNames(_)
SectionNames(text) ==
    IF Len(text) < 2 THEN << >>
    ELSE IF Head(text).s = "--- "
         THEN << text[2].s >> \o SectionNames(Tail(text))
         ELSE SectionNames(Tail(text))

SectionsOfRunsWithText ==
    /\ fire.phase # "idle" => fire.invoked = SubSeq(fire.sources, 1, Len(fire.invoked))
    /\ fire.briefing # << >>
          => /\ fire.invoked = fire.sources
             /\ \E keep \in SUBSET DOMAIN fire.sources :
                   SectionNames(fire.briefing)
                      = [ i \in 1 .. Cardinality(keep) |->
                            Upper(fire.sources[
                               CHOOSE k \in keep :
                                  Cardinality({ j \in keep : j < k }) = i - 1 ]) ]

\* ========================================================= circuit breaker
\*
\* One CircuitBreaker of src/tools/retry.py, the calls made through it and
\* the direct uses of record_failure, record_success and is_open.  time.time()
\* is the wall clock.

\* The largest failure_threshold of the model.
MaxThreshold == 3
\* The most failures and successes one breaker records in the model.
MaxOps == 4
\* The most calls in flight at once.
MaxPending == 2
\* The most calls made through one breaker in the model.
MaxCalls == 3

\* recovery_timeout: none, and two that the clock of the model can pass.
RecoveryTimeouts == { 0, 1, 2 }

\* CircuitBreaker.__init__
NewBreaker(failure_threshold, recovery_timeout) ==
    [ phase |-> "live",
      failure_threshold |-> failure_threshold,
      recovery_timeout |-> recovery_timeout,
      failure_count |-> 0,
      last_failure_time |-> 0,
      state |-> "closed",
      pending |-> 0,
      ops |-> << >>,
      calls |-> 0,
      last_call |-> "none" ]

\* A breaker that lets the first call after a failure through whatever the
\* time.
is_open_without_timeout(b, now) ==
    IF b.state = "open"
    THEN [ open |-> FALSE, breaker |-> [ b EXCEPT !.state = "half-open" ] ]
    ELSE [ open |-> FALSE, breaker |-> b ]

\* A breaker whose failure count starts again when the timeout has elapsed.
is_open_resets_count(b, now) ==
    IF b.state = "open"
    THEN IF now - b.last_failure_time >= b.recovery_timeout
         THEN [ open |-> FALSE,
                breaker |-> [ b EXCEPT !.state = "half-open", !.failure_count = 0 ] ]
         ELSE [ open |-> TRUE, breaker |-> b ]
    ELSE [ open |-> FALSE, breaker |-> b ]

\* The property is_open: its value and the breaker after the read.
is_open(b, now) ==
    IF b.state = "open"
    THEN IF now - b.last_failure_time >= b.recovery_timeout
         THEN [ open |-> FALSE, breaker |-> [ b EXCEPT !.state = "half-open" ] ]
         ELSE [ open |-> TRUE, breaker |-> b ]
    ELSE [ open |-> FALSE, breaker |-> b ]

record_success(b) ==
    [ b EXCEPT !.failure_count = 0, !.state = "closed", !.ops = Append(@, "success") ]

\* A breaker that opens one failure late.
record_failure_above_threshold(b, now) ==
    [ b EXCEPT !.failure_count = @ + 1,
               !.last_failure_time = now,
               !.state = IF b.failure_count + 1 > b.failure_threshold THEN "open" ELSE @,
               !.ops = Append(@, "failure") ]

record_failure(b, now) ==
    [ b EXCEPT !.failure_count = @ + 1,
               !.last_failure_time = now,
               !.state = IF b.failure_count + 1 >= b.failure_threshold THEN "open" ELSE @,
               !.ops = Append(@, "failure") ]

NotBreaker ==
    << pipeline, backoff, wa_subscribers, query_log, frontend, scheduler, runs, last_op,
       fire,
       sessions, pending_run >>

\* cb.record_failure() called by the owner of the breaker.
BreakerRecordFailure ==
    /\ Len(breaker.ops) < MaxOps
    /\ breaker' = record_failure(breaker, utcnow)
    /\ UNCHANGED << utcnow, NotBreaker >>

\* cb.record_success() called by the owner of the breaker.
BreakerRecordSuccess ==
    /\ Len(breaker.ops) < MaxOps
    /\ breaker' = record_success(breaker)
    /\ UNCHANGED << utcnow, NotBreaker >>

\* cb.is_open read by the owner of the breaker.
BreakerIsOpen ==
    /\ breaker' = is_open(breaker, utcnow).breaker
    /\ breaker' # breaker
    /\ UNCHANGED << utcnow, NotBreaker >>

\* call, lines 87-90: RuntimeError when the breaker is open, else func is
\* invoked and awaited.
BreakerCall ==
    /\ breaker.calls < MaxCalls
    /\ breaker.pending < MaxPending
    /\ LET read == is_open(breaker, utcnow)
       IN  breaker' = IF read.open
                      THEN [ read.breaker EXCEPT !.calls = @ + 1,
                                                 !.last_call = "RuntimeError" ]
                      ELSE [ read.breaker EXCEPT !.calls = @ + 1,
                                                 !.last_call = "invoked",
                                                 !.pending = @ + 1 ]
    /\ UNCHANGED << utcnow, NotBreaker >>

\* call, lines 90-92: func has returned.
BreakerReturn ==
    /\ breaker.pending > 0
    /\ Len(breaker.ops) < MaxOps
    /\ breaker' = [ record_success(breaker) EXCEPT !.pending = @ - 1 ]
    /\ UNCHANGED << utcnow, NotBreaker >>

\* call, lines 93-95: func has raised an Exception, which call raises again.
BreakerRaise ==
    /\ breaker.pending > 0
    /\ Len(breaker.ops) < MaxOps
    /\ breaker' = [ record_failure(breaker, utcnow) EXCEPT !.pending = @ - 1 ]
    /\ UNCHANGED << utcnow, NotBreaker >>

\* Time passes.
BreakerTick ==
    /\ utcnow < MaxClock
    /\ utcnow' = utcnow + 1
    /\ UNCHANGED << breaker, NotBreaker >>

InitBreaker ==
    /\ breaker \in { NewBreaker(n, t) : n \in 1 .. MaxThreshold, t \in RecoveryTimeouts }
    /\ utcnow = 0
    /\ wa_subscribers = << >> /\ query_log = << >> /\ last_op = << >>
    /\ PipelineIdle /\ BackoffIdle /\ FrontEndIdle /\ SchedulerIdle /\ RunsIdle
    /\ FireIdle
    /\ SessionsIdle /\ PendingRunIdle

NextBreaker ==
    \/ BreakerRecordFailure
    \/ BreakerRecordSuccess
    \/ BreakerIsOpen
    \/ BreakerCall
    \/ BreakerReturn
    \/ BreakerRaise
    \/ BreakerTick

SpecBreaker == InitBreaker /\ [][NextBreaker]_vars

\* The failures recorded since the last success, or since construction.
RECURSIVE TrailingFailures(_)
TrailingFailures(ops) ==
    IF ops = << >> \/ ops[Len(ops)] = "success" THEN 0
    ELSE 1 + TrailingFailures(SubSeq(ops, 1, Len(ops) - 1))

\* C25 as stated: the breaker is open exactly when failure_threshold
\* failures have been recorded with no success in between, and after a
\* success the failure count is 0 and the breaker is closed.
C25_OpenExactlyAtTheThreshold ==
    /\ breaker.ops = << >> => breaker.state = "closed"
    /\ breaker.state = "open"
          <=> TrailingFailures(breaker.ops) >= breaker.failure_threshold
    /\ (breaker.ops # << >> /\ breaker.ops[Len(breaker.ops)] = "success")
          => breaker.failure_count = 0 /\ breaker.state = "closed"

\* C25, amended: the breaker is closed exactly when fewer than
\* failure_threshold failures have been recorded since the last success; from
\* the threshold on it is open, or half-open once a read of is_open has found
\* the recovery timeout elapsed; after a success the failure count is 0 and
\* the breaker is closed.
C25_ClosedExactlyUnderTheThreshold ==
    /\ breaker.ops = << >> => breaker.state = "closed"
    /\ breaker.failure_count = TrailingFailures(breaker.ops)
    /\ breaker.state = "closed"
          <=> TrailingFailures(breaker.ops) < breaker.failure_threshold
    /\ breaker.state \in { "closed", "open", "half-open" }
    /\ breaker.state = "half-open"
          => utcnow - breaker.last_failure_time >= breaker.recovery_timeout
    /\ (breaker.ops # << >> /\ breaker.ops[Len(breaker.ops)] = "success")
          => breaker.failure_count = 0 /\ breaker.state = "closed"

\* C25 witness: one failure, a success, and then the two failures of the
\* threshold: the breaker is open.
C25_Witness ==
    /\ breaker.failure_threshold = 2
    /\ breaker.ops = << "failure", "success", "failure", "failure" >>
    /\ breaker.state = "open"
    /\ breaker.failure_count = 2

\* C26: a call made while the breaker is open and the recovery timeout has
\* not elapsed raises RuntimeError, does not invoke func and leaves the
\* failure count and the state as they were.
C26_OpenBreakerRejectsCalls ==
    [][ ( /\ breaker'.calls = breaker.calls + 1
          /\ breaker.state = "open"
          /\ utcnow - breaker.last_failure_time < breaker.recovery_timeout )
        => /\ breaker'.last_call = "RuntimeError"
           /\ breaker'.pending = breaker.pending
           /\ breaker'.ops = breaker.ops
           /\ breaker'.failure_count = breaker.failure_count
           /\ breaker'.last_failure_time = breaker.last_failure_time
           /\ breaker'.state = "open" ]_vars

\* C26 witness: a call was refused by a breaker that two failures had opened
\* one second before, with a recovery timeout of two seconds.
C26_Witness ==
    /\ breaker.last_call = "RuntimeError"
    /\ breaker.state = "open"
    /\ breaker.failure_count = 2
    /\ breaker.recovery_timeout = 2
    /\ utcnow - breaker.last_failure_time = 1
    /\ breaker.pending = 0

\* ------------------------------------------------- the note of the response

\* Where a piece of text s stands whole in a text, 0 when it does not.
Whole(text, s) ==
    IF \E i \in DOMAIN text : text[i].s = s /\ text[i].n = text[i].of
    THEN CHOOSE i \in DOMAIN text :
            /\ text[i].s = s /\ text[i].n = text[i].of
            /\ \A j \in 1 .. i - 1 : ~(text[j].s = s /\ text[j].n = text[j].of)
    ELSE 0

\* The note read back from a text: whether it stands there whole, the names
\* between "_Tried " and " first, used " and the name after it.
ReadNote(text) ==
    LET p == Whole(text, "_Tried ")
        q == Whole(text, " first, used ")
        there == /\ p > 0 /\ q > p /\ (q - p) % 2 = 0
                 /\ q + 2 <= Len(text)
                 /\ text[q + 2].s = "._" /\ text[q + 2].n = text[q + 2].of
                 /\ \A k \in p + 1 .. q + 1 : text[k].n = text[k].of
                 /\ \A k \in p + 1 .. q - 1 : (k - p) % 2 = 0 => text[k].s = ", "
    IN  [ there |-> there,
          tried |-> IF there THEN [ k \in 1 .. (q - p) \div 2 |-> text[p + 2 * k - 1].s ]
                    ELSE << >>,
          used |-> IF there THEN text[q + 1].s ELSE "" ]

\* The response was cut at the cap: it ends with the ellipsis.
Truncated(text) == text # << >> /\ text[Len(text)].s = "..."

OpenCollectors(hs) == { i \in DOMAIN hs : hs[i].kind = "collector" /\ hs[i].open }

\* C32: the steps of a run follow one another and fail-over is serial: at
\* most one collector of the run is open at any moment, a collector is
\* obtained only by a collect step, when every handle obtained before it has
\* been closed, and between two collect steps there is one retry step.
C32_FailOverIsSerial ==
    [][ /\ Cardinality(OpenCollectors(handles')) <= 1
        /\ steps'.collect <= steps'.retry + 1
        /\ ( /\ Len(handles') = Len(handles) + 1
             /\ handles'[Len(handles')].kind = "collector" )
              => /\ pc = "collect" /\ pc' = "collect_fetch"
                 /\ \A i \in DOMAIN handles :
                       /\ ~handles[i].open /\ handles[i].closes = 1
                       /\ handles'[i] = handles[i]
                 /\ steps'.collect = steps.retry + 1 ]_vars

\* C32 witness: the third collector of a run is open, the two before it are
\* closed.
C32_Witness ==
    /\ pc = "collect_fetch"
    /\ Len(handles) = 3
    /\ \A i \in 1 .. 3 : handles[i].kind = "collector"
    /\ OpenCollectors(handles) = { 3 }
    /\ steps.retry = 2

\* ------------------------------------------------------ sources tried once

\* C34: no source is collected twice in one run: tried_sources never holds
\* the same source twice and no two collect attempts are on the same source.
C34_NoSourceTwice ==
    /\ \A i, j \in DOMAIN state.tried_sources :
          i # j => state.tried_sources[i] # state.tried_sources[j]
    /\ \A i, j \in DOMAIN attempts :
          i # j => attempts[i].source # attempts[j].source

\* Every loop back from a retry step that found an untried fallback uses a
\* new source; the repeated source is the one collected again after the
\* retry step has found no fallback left.
OnlyExhaustionRepeats ==
    \A i, j \in DOMAIN state.tried_sources :
       (i < j /\ state.tried_sources[i] = state.tried_sources[j])
          => /\ j = Len(state.tried_sources) /\ i = j - 1
             /\ state.retry_count = RetryExhausted

\* -------------------------------------------------------- items and error

\* The steps from the end of a collect step on, those after a retry step
\* that set a new source and cleared the error excepted.
AfterCollect == pc \in { "retry", "analyze", "analyze_llm", "respond", "END" }

\* The error text names the source: "No results from <source>" or
\* "Failed: <source> (...)".
ErrorNames(error, source) ==
    /\ Len(error) >= 2
    /\ error[1].s \in { "No results from ", "Failed: " }
    /\ error[2].s = source

\* C35: from the end of a collect step up to END items is empty exactly
\* when error is not; at analyze and at END either there are items and no
\* error, or no items and an error that names the last attempted source.
C35_ItemsOrError ==
    AfterCollect
       => /\ state.items = << >> <=> state.error # << >>
          /\ state.items = << >>
                => ErrorNames(state.error,
                              state.tried_sources[Len(state.tried_sources)])
          /\ state.tried_sources # << >>
          /\ state.tried_sources[Len(state.tried_sources)] = attempts[Len(attempts)].source

\* C35 witness: after the fallback list of weather was exhausted the last
\* source, collected once more, returned items: the run is at analyze with
\* items and no error.
C35_Witness ==
    /\ pc = "analyze"
    /\ state.tried_sources = << "weather", "ddg", "ddg" >>
    /\ state.retry_count = RetryExhausted
    /\ state.items # << >>
    /\ state.error = << >>

\* A reachable state of the other case: a
\* run ended without items and with the error of its last source.
EndedWithoutItems ==
    /\ pc = "END"
    /\ state.items = << >>
    /\ state.error = NoResultsError("news")
    /\ state.tried_sources = << "wikipedia", "ddg", "news" >>

\* ------------------------------------------- the sources of the fallbacks

Range(seq) == { seq[i] : i \in DOMAIN seq }

\* C36: every key of the fallback policy, every alternate it lists and every
\* source of the generic default is a registry key, and no source is its
\* own alternate; so in a run whose routed source is registered the source
\* is a registry key in every state after the route step and no collect
\* attempt fails on an unknown collector.
C36_FallbacksAreRegistered ==
    /\ DOMAIN FALLBACK_CHAIN \subseteq AVAILABLE_SOURCES
    /\ \A k \in DOMAIN FALLBACK_CHAIN :
          /\ Range(FALLBACK_CHAIN[k]) \subseteq AVAILABLE_SOURCES
          /\ k \notin Range(FALLBACK_CHAIN[k])
    /\ \A s \in AVAILABLE_SOURCES \cup { UnknownSource } :
          /\ Range(Fallbacks(s)) \subseteq AVAILABLE_SOURCES
          /\ s \notin Range(Fallbacks(s))
    /\ (routing.how \in { "passthrough", "parsed", "fallback" }
          /\ routing.source \in AVAILABLE_SOURCES)
          => /\ state.source \in AVAILABLE_SOURCES
             /\ Range(state.tried_sources) \subseteq AVAILABLE_SOURCES
             /\ \A i \in DOMAIN attempts :
                   /\ attempts[i].source \in AVAILABLE_SOURCES
                   /\ attempts[i].outcome # "unknown"

\* C36 witness: dexscreener, a registered source without an entry of its
\* own, missed; the run went on with the generic default, news and reddit,
\* and ended.
C36_Witness ==
    /\ pc = "END"
    /\ routing.source = "dexscreener"
    /\ state.tried_sources = << "dexscreener", "news", "reddit" >>
    /\ state.source = "reddit"
    /\ \A i \in DOMAIN attempts : attempts[i].outcome # "unknown"

\* ------------------------------------------------------ what a step changes

\* The state with the named fields taken from another state.
With(st, other, fields) ==
    [ f \in DOMAIN st |-> IF f \in fields THEN other[f] ELSE st[f] ]

\* C37: a step changes only its own fields.  collect leaves source, query
\* and retry_count as they were (it writes items, error and tried_sources
\* only), retry leaves items, tried_sources and query (it writes source,
\* error and retry_count only), analyze changes only analysis, respond only
\* response, and no step changes user_message, model or analysis_model.
C37_StepsChangeTheirOwnFields ==
    [][ /\ pc \in { "collect", "collect_fetch" }
              => state' = With(state, state', { "items", "error", "tried_sources" })
        /\ pc = "retry"
              => state' = With(state, state', { "source", "error", "retry_count" })
        /\ pc \in { "analyze", "analyze_llm" }
              => state' = With(state, state', { "analysis" })
        /\ pc = "respond"
              => state' = With(state, state', { "response" })
        /\ state'.user_message = state.user_message
        /\ state'.model = state.model
        /\ state'.analysis_model = state.analysis_model
        /\ state'.user_message = request.user_message
        /\ state'.analysis_model = request.analysis_model ]_vars

\* C37 witness: a run that went through collect, retry, collect, analyze
\* with the LLM and respond has ended with the message and the models it
\* started with.
C37_Witness ==
    /\ pc = "END"
    /\ steps.retry = 1 /\ steps.collect = 2 /\ steps.analyze = 1 /\ steps.respond = 1
    /\ state.source # request.source
    /\ state.items # << >>
    /\ state.analysis = Txt("briefing", ShortLen)
    /\ state.response # << >>
    /\ state.user_message = request.user_message
    /\ state.analysis_model = "qwen2.5:0.5b"
    /\ state.model = ""

\* C38: a call made on an open breaker once the recovery timeout has elapsed
\* finds it half-open and is admitted, as is every call made while it is
\* half-open, with the failure count as it was; a failure recorded while the
\* breaker is half-open opens it at once, a success closes it with a
\* failure count of 0.
C38_HalfOpenAdmitsAndDecides ==
    [][ /\ ( /\ breaker'.calls = breaker.calls + 1
             /\ \/ breaker.state = "half-open"
                \/ /\ breaker.state = "open"
                   /\ utcnow - breaker.last_failure_time >= breaker.recovery_timeout )
              => /\ breaker'.last_call = "invoked"
                 /\ breaker'.pending = breaker.pending + 1
                 /\ breaker'.state = "half-open"
                 /\ breaker'.failure_count = breaker.failure_count
                 /\ breaker'.failure_count >= breaker.failure_threshold
        /\ (breaker.state = "half-open" /\ breaker'.ops = Append(breaker.ops, "failure"))
              => /\ breaker'.state = "open"
                 /\ breaker'.failure_count = breaker.failure_count + 1
                 /\ breaker'.last_failure_time = utcnow
        /\ (breaker.state = "half-open" /\ breaker'.ops = Append(breaker.ops, "success"))
              => /\ breaker'.state = "closed"
                 /\ breaker'.failure_count = 0 ]_vars

\* C38 witness: two failures opened the breaker, the timeout of two seconds
\* elapsed, a call was admitted and failed: the breaker is open again with
\* three failures counted, the last of them at the present time.
C38_Witness ==
    /\ breaker.failure_threshold = 2
    /\ breaker.recovery_timeout = 2
    /\ breaker.ops = << "failure", "failure", "failure" >>
    /\ breaker.state = "open"
    /\ breaker.failure_count = 3
    /\ breaker.last_call = "invoked"
    /\ breaker.calls = 1
    /\ breaker.pending = 0
    /\ breaker.last_failure_time = utcnow
    /\ utcnow >= 2

\* ======================================================== process_pending
\*
\* AnalysisPipeline.process_pending of src/analyzers/pipeline.py over the
\* collected items table of src/storage/repository.py.  Every await of
\* analyze_item either returns or raises; an LLM call raises when the
\* request fails, a repository call when the statement or the commit
\* fails.

\* The most calls of process_pending in the model.
MaxProcessCalls == 2

\* The rows of collected_items, oldest first.
ItemTables ==
    { << [ id |-> "a", analyzed |-> "pending" ] >>,
      << [ id |-> "a", analyzed |-> "pending" ],
         [ id |-> "b", analyzed |-> "completed" ],
         [ id |-> "c", analyzed |-> "pending" ] >> }

\* limit of process_pending: one that cuts the list and one that does not.
PendingLimits == { 1, 2 }

\* The awaits of the try block of analyze_item, in order.
Stages ==
    << "sentiment", "topics", "summary", "save sentiment", "save topics",
       "save summary", "mark completed" >>

RECURSIVE Reverse(_)
Reverse(seq) == IF seq = << >> THEN << >> ELSE Reverse(Tail(seq)) \o << Head(seq) >>

\* get_pending_items: where analyzed == "pending", order by collected_at
\* desc, limit.
get_pending_items(table, limit) ==
    LET pending == SelectSeq(Reverse(table), LAMBDA row : row.analyzed = "pending")
        ids == [ i \in DOMAIN pending |-> pending[i].id ]
    IN  IF Len(ids) > limit THEN SubSeq(ids, 1, limit) ELSE ids

\* mark_item_analyzed: update ... where id == item_id, values(analyzed=status)
mark_item_analyzed(table, item_id, status) ==
    [ i \in DOMAIN table |->
        IF table[i].id = item_id THEN [ table[i] EXCEPT !.analyzed = status ]
        ELSE table[i] ]

\* for item in items: the loop goes to the next item, or ends.
after_item(r) ==
    IF r.idx = Len(r.items)
    THEN [ r EXCEPT !.phase = "returned" ]
    ELSE [ r EXCEPT !.phase = "item", !.idx = @ + 1, !.stage = 1 ]

NotPendingRun ==
    << pipeline, backoff, wa_subscribers, query_log, utcnow, frontend, scheduler, runs,
       last_op, fire, breaker, sessions >>

\* process_pending, lines 75-78: the pending items are fetched; an exception
\* of the query leaves process_pending.
PendingFetch ==
    /\ pending_run.phase = "fetch"
    /\ \E ok \in BOOLEAN :
          pending_run' =
             IF ok
             THEN LET items == get_pending_items(pending_run.table, pending_run.limit)
                  IN  [ pending_run EXCEPT
                          !.phase = IF items = << >> THEN "returned" ELSE "item",
                          !.items = items, !.idx = 1, !.stage = 1,
                          !.results = << >>, !.raised = { }, !.unmarked = { },
                          !.saved = [ id \in DOMAIN pending_run.saved |-> 0 ] ]
             ELSE [ pending_run EXCEPT !.phase = "raised", !.items = << >>,
                                       !.results = << >> ]
    /\ UNCHANGED NotPendingRun

\* analyze_item, lines 26-67: the next await of the try block returns or
\* raises; after the last one the result is returned and appended.
PendingStep ==
    /\ pending_run.phase = "item"
    /\ LET id == pending_run.items[pending_run.idx]
           stage == Stages[pending_run.stage]
       IN  \E ok \in BOOLEAN :
              pending_run' =
                 IF ~ok
                 THEN [ pending_run EXCEPT !.phase = "except",
                                           !.raised = @ \cup { id } ]
                 ELSE IF stage = "mark completed"
                 THEN after_item(
                         [ pending_run EXCEPT
                             !.table = mark_item_analyzed(@, id, "completed"),
                             !.left = @ \cup { id },
                             !.results = Append(@, id) ])
                 ELSE [ pending_run EXCEPT
                          !.stage = @ + 1,
                          !.saved[id] = IF stage \in { "save sentiment", "save topics",
                                                       "save summary" }
                                        THEN @ + 1 ELSE @ ]
    /\ UNCHANGED NotPendingRun

\* analyze_item, lines 69-72, and process_pending, lines 83-84: the except
\* clause marks the item failed and raises again; when the marking itself
\* raises, that exception leaves analyze_item instead.  Either one is caught
\* by the loop of process_pending.
PendingExcept ==
    /\ pending_run.phase = "except"
    /\ LET id == pending_run.items[pending_run.idx]
       IN  \E ok \in BOOLEAN :
              pending_run' =
                 IF ok
                 THEN after_item(
                         [ pending_run EXCEPT
                             !.table = mark_item_analyzed(@, id, "failed"),
                             !.left = @ \cup { id } ])
                 ELSE after_item([ pending_run EXCEPT !.unmarked = @ \cup { id } ])
    /\ UNCHANGED NotPendingRun

\* process_pending is called again.
PendingAgain ==
    /\ pending_run.phase \in { "returned", "raised" }
    /\ pending_run.calls < MaxProcessCalls
    /\ pending_run' = [ pending_run EXCEPT !.phase = "fetch", !.calls = @ + 1 ]
    /\ UNCHANGED NotPendingRun

InitPendingRun ==
    /\ \E table \in ItemTables, limit \in PendingLimits :
          pending_run = [ phase |-> "fetch", table |-> table, limit |-> limit,
                          items |-> << >>, idx |-> 1, stage |-> 1,
                          saved |-> [ id \in { table[i].id : i \in DOMAIN table } |-> 0 ],
                          raised |-> { }, unmarked |-> { }, left |-> { },
                          results |-> << >>, calls |-> 1 ]
    /\ wa_subscribers = << >> /\ query_log = << >> /\ utcnow = 0 /\ last_op = << >>
    /\ PipelineIdle /\ BackoffIdle /\ FrontEndIdle /\ SchedulerIdle /\ RunsIdle
    /\ FireIdle /\ BreakerIdle /\ SessionsIdle

NextPendingRun == PendingFetch \/ PendingStep \/ PendingExcept \/ PendingAgain

SpecPendingRun == InitPendingRun /\ [][NextPendingRun]_vars

\* The status of an item in the table.
Analyzed(id) ==
    LET i == CHOOSE i \in DOMAIN pending_run.table : pending_run.table[i].id = id
    IN  pending_run.table[i].analyzed

\* C33: when process_pending has returned, every item it fetched has one
\* terminal status, completed when its three analyses were saved and no
\* step raised, failed when a step raised; the results are the completed
\* items, and no item that had left the pending status was fetched.
C33_EveryFetchedItemSettled ==
    pending_run.phase = "returned"
       => /\ \A i \in DOMAIN pending_run.items :
                LET id == pending_run.items[i]
                IN  /\ Analyzed(id) \in { "completed", "failed" }
                    /\ Analyzed(id) = "completed"
                          <=> (pending_run.saved[id] = 3 /\ id \notin pending_run.raised)
                    /\ Analyzed(id) = "failed" <=> id \in pending_run.raised
          /\ pending_run.results
                = SelectSeq(pending_run.items, LAMBDA id : Analyzed(id) = "completed")

\* What holds of every call: the items of the results are completed ones, an
\* item that has left the pending status is not fetched again, the loop
\* goes through all fetched items, and the only fetched items still
\* pending at the end are those whose marking as failed raised.
SettledUnlessTheMarkingRaised ==
    /\ \A i \in DOMAIN pending_run.results :
          Analyzed(pending_run.results[i]) = "completed"
    /\ pending_run.phase \in { "item", "except" }
          => Analyzed(pending_run.items[pending_run.idx]) = "pending"
    /\ \A i \in DOMAIN pending_run.items :
          i > pending_run.idx => pending_run.items[i] \notin pending_run.left
    /\ pending_run.phase = "returned"
          => \A i \in DOMAIN pending_run.items :
                LET id == pending_run.items[i]
                IN  /\ Analyzed(id) = "pending" <=> id \in pending_run.unmarked
                    /\ Analyzed(id) = "completed"
                          <=> (pending_run.saved[id] = 3 /\ id \notin pending_run.raised)
                    /\ id \in pending_run.unmarked => id \in pending_run.raised

\* ==================================================== concurrent sessions
\*
\* add_wa_subscriber and remove_wa_subscriber of src/storage.py called
\* concurrently for one phone number.  Each call opens its own session,
\* awaits the select and later awaits the commit; other calls run between
\* the two.  The column phone_number is declared unique.

\* The most subscribe and unsubscribe calls in the model.
MaxSessions == 3

\* The phone number the calls are about.
SessionPhone == "+15550001"

\* The table before the calls: empty, or with a row of the number that an
\* earlier unsubscribe has set inactive, next to a row of another number.
SessionTables ==
    { << >>,
      remove_wa_subscriber(
          add_wa_subscriber(add_wa_subscriber(<< >>, "+15550002", "weather"),
                            SessionPhone, "weather"), SessionPhone) }

\* An insert into a table without the unique constraint.
insert_row_unchecked(rows, phone_number, preferences) ==
    [ ok |-> TRUE,
      rows |-> Append(rows, [ phone_number |-> phone_number, active |-> 1,
                              preferences |-> preferences ]) ]

\* The INSERT of the commit: phone_number is unique, so a second row of the
\* number is refused with an IntegrityError.
insert_row(rows, phone_number, preferences) ==
    IF \E i \in DOMAIN rows : rows[i].phone_number = phone_number
    THEN [ ok |-> FALSE, rows |-> rows ]
    ELSE [ ok |-> TRUE,
           rows |-> Append(rows, [ phone_number |-> phone_number, active |-> 1,
                                   preferences |-> preferences ]) ]

\* The UPDATE of the commit: the attributes whose value differs from the
\* one the session loaded are written to the row of the number.
update_row(rows, phone_number, loaded, active, preferences) ==
    [ i \in DOMAIN rows |->
        IF rows[i].phone_number = phone_number
        THEN [ rows[i] EXCEPT
                 !.active = IF active # loaded.active THEN active ELSE @,
                 !.preferences = IF preferences # loaded.preferences
                                 THEN preferences ELSE @ ]
        ELSE rows[i] ]

NotSessions ==
    << pipeline, backoff, query_log, utcnow, frontend, scheduler, runs, last_op, fire,
       breaker, pending_run >>

\* A handler calls add_wa_subscriber or remove_wa_subscriber.
SessionStart ==
    /\ Len(sessions) < MaxSessions
    /\ \E op \in { "subscribe", "unsubscribe" }, prefs \in Preferences :
          sessions' = Append(sessions,
                         [ op |-> op, phone_number |-> SessionPhone,
                           preferences |-> IF op = "subscribe" THEN prefs ELSE "",
                           phase |-> "select", found |-> FALSE,
                           loaded |-> [ active |-> 0, preferences |-> "" ] ])
    /\ UNCHANGED << wa_subscribers, NotSessions >>

\* The select of a call returns: scalar_one_or_none().  remove_wa_subscriber
\* is done when there is no row.
SessionSelect ==
    /\ \E c \in DOMAIN sessions :
          /\ sessions[c].phase = "select"
          /\ LET existing == Existing(wa_subscribers, sessions[c].phone_number)
             IN  sessions' =
                    [ sessions EXCEPT
                        ![c].found = existing # 0,
                        ![c].loaded = IF existing # 0
                                      THEN [ active |-> wa_subscribers[existing].active,
                                             preferences |->
                                                wa_subscribers[existing].preferences ]
                                      ELSE @,
                        ![c].phase = IF existing = 0 /\ sessions[c].op = "unsubscribe"
                                     THEN "done" ELSE "commit" ]
    /\ UNCHANGED << wa_subscribers, NotSessions >>

\* The commit of a call: the update of the row it loaded, or the insert of
\* a new row.
SessionCommit ==
    /\ \E c \in DOMAIN sessions :
          /\ sessions[c].phase = "commit"
          /\ LET call == sessions[c]
                 inserted == insert_row(wa_subscribers, call.phone_number,
                                        call.preferences)
             IN  IF call.found
                 THEN /\ wa_subscribers' =
                            IF call.op = "subscribe"
                            THEN update_row(wa_subscribers, call.phone_number,
                                            call.loaded, 1, call.preferences)
                            ELSE update_row(wa_subscribers, call.phone_number,
                                            call.loaded, 0, call.loaded.preferences)
                      /\ sessions' = [ sessions EXCEPT ![c].phase = "done" ]
                 ELSE /\ wa_subscribers' = inserted.rows
                      /\ sessions' = [ sessions EXCEPT
                                         ![c].phase = IF inserted.ok THEN "done"
                                                      ELSE "raised" ]
    /\ UNCHANGED NotSessions

InitSessions ==
    /\ sessions = << >>
    /\ wa_subscribers \in SessionTables
    /\ query_log = << >> /\ utcnow = 0 /\ last_op = << >>
    /\ PipelineIdle /\ BackoffIdle /\ FrontEndIdle /\ SchedulerIdle /\ RunsIdle
    /\ FireIdle /\ BreakerIdle /\ PendingRunIdle

NextSessions == SessionStart \/ SessionSelect \/ SessionCommit

SpecSessions == InitSessions /\ [][NextSessions]_vars

\* C39: whatever the interleaving of the subscribe and unsubscribe calls
\* for a number, the table never holds two rows of it and the active
\* subscribers never hold it twice.
C39_OneRowPerNumber ==
    /\ \A i, j \in DOMAIN wa_subscribers :
          wa_subscribers[i].phone_number = wa_subscribers[j].phone_number => i = j
    /\ LET active == get_wa_subscribers(wa_subscribers)
       IN  \A i, j \in DOMAIN active :
              active[i].phone_number = active[j].phone_number => i = j

\* C39 witness: two subscribe calls both found no row of the number; the
\* insert of one was committed, the insert of the other was refused.
C39_Witness ==
    /\ Len(sessions) >= 2
    /\ sessions[1].op = "subscribe" /\ sessions[2].op = "subscribe"
    /\ ~sessions[1].found /\ ~sessions[2].found
    /\ { sessions[1].phase, sessions[2].phase } = { "done", "raised" }
    /\ Len(wa_subscribers) = 1
    /\ wa_subscribers[1].phone_number = SessionPhone

====
